---- MODULE Spec2Model ----
(***************************************************************************)
(* Resumaker backend: the custom-resume routes (create, update,            *)
(* generate-pdf), the element delete routes, and the LaTeX -> PDF ->       *)
(* thumbnail -> upload pipeline behind them.                               *)
(*                                                                         *)
(* Scheduling.  The handlers are asyncio coroutines of one FastAPI         *)
(* application: one event loop runs them, and a coroutine gives the loop   *)
(* up only where it awaits I/O (the motor calls on the document store).    *)
(* Code between two such awaits runs without interleaving.  `running` is   *)
(* the request whose synchronous code holds the loop (0: the loop is       *)
(* free); every action of request r needs running \in {0, r}.              *)
(*                                                                         *)
(* Inputs.  A request's scalar arguments are drawn when it starts.  Each   *)
(* reference list of a request body is drawn at the place where the        *)
(* handler first reads it (the handler reads the lists in a fixed order    *)
(* and stops at the first invalid one); req[r].ids records the lists read  *)
(* so far.                                                                 *)
(*                                                                         *)
(* A handler that has answered stays in view for one state (pc = "done":   *)
(* its response and its locals), then its frame is released (Close).       *)
(* req[r].events lists what happened in the run of request r; meta_writer  *)
(* and final_writes are history variables.                                 *)
(*                                                                         *)
(* Spec is the service under concurrent requests.  SpecValidate is one     *)
(* call of validate_referenced_ids against a store of elements, held in    *)
(* the variable `call`.                                                    *)
(***************************************************************************)
EXTENDS Naturals, Sequences, FiniteSets, TLC

VARIABLES
    elements,        \* the eight element collections: documents [kind, id, user_id]
    custom_resumes,  \* the custom_resumes collection: a set of documents
    cloud,           \* the artifact store: public ids of uploaded artifacts
    fs,              \* temporary files and directories on disk (paths)
    req,             \* per request: arguments, program counter, locals, response
    running,         \* the request holding the event loop (0: none)
    meta_writer,     \* history: per resume, the request that last wrote name / lists
                     \* or deleted the record
    final_writes,    \* history: per resume, the requests that wrote its artifact
                     \* fields, in the order of their writes
    call             \* SpecValidate: the call, its arguments and its outcome

vars == <<elements, custom_resumes, cloud, fs, req, running, meta_writer, final_writes, call>>

\* ---------------------------------------------------------------- bounds
MaxRequests == 2     \* requests started in one behaviour, all possibly in flight at once
MaxListLen == 1      \* identifiers in one reference list of a request body
MaxProvided == 1     \* reference lists present in one update body
MaxCallLen == 3      \* identifiers in the list of a single validate_referenced_ids call

\* ------------------------------------------------------- program constants
INITIAL_MAX_RESUMES == 2

Reqs == 1 .. MaxRequests
Users == {"u1", "u2"}
CreateNames == {"cv"}
UpdateNames == {"cv2"}

\* The order in which create, update and populate go through the kinds.
KindOrder ==
    <<"heading", "education", "experience", "project",
      "skill", "volunteer", "certification", "award">>
NumKinds == Len(KindOrder)
Kinds == {KindOrder[i] : i \in 1 .. NumKinds}

\* ------------------------------------------------------------ identifiers
\* An identifier string of a request is a pair (tag, n); the tag "zz" marks a
\* string that bson's ObjectId() rejects.
MissingIdStrs == {<<"m", 4>>}      \* well-formed, the id of no document
MalformedIdStrs == {<<"zz", 0>>}

IsObjectIdStr(s) == s[1] # "zz"
ObjectId(s) == <<"ObjectId", s>>
StrOfObjectId(o) == o[2]
\* insert_one gives the document of request r a fresh ObjectId.
NewResumeId(r) == ObjectId(<<"r", r>>)

Null == <<>>
\* What an upload returns: names are fresh per upload (uuid4), here tagged by
\* the artifact and the request that uploaded it.
Url(what, r) == <<"url", what, r>>
PublicId(what, r) == <<"public_id", what, r>>
NoName == [some |-> FALSE, val |-> ""]
NoList == [some |-> FALSE, val |-> <<>>]
Some(v) == [some |-> TRUE, val |-> v]

SeqToSet(s) == {s[i] : i \in DOMAIN s}

\* The element documents present before the first request: two educations of
\* different owners and one award.
InitElements ==
    { [kind |-> "education", id |-> ObjectId(<<"e", 1>>), user_id |-> "u1"],
      [kind |-> "education", id |-> ObjectId(<<"e", 2>>), user_id |-> "u2"],
      [kind |-> "award",     id |-> ObjectId(<<"a", 3>>), user_id |-> "u1"] }

\* The identifier strings a request body offers in its list of `kind`: the ids
\* of the documents of that kind (of either owner), an id of no document, and
\* a malformed string.
IdStrsFor(kind) ==
    {StrOfObjectId(e.id) : e \in {x \in InitElements : x.kind = kind}}
        \cup MissingIdStrs \cup MalformedIdStrs
\* Request bodies hold non-empty lists, and update bodies hold lists at all,
\* only for the kinds that have documents; every other list is empty (create)
\* or absent (update).
ListedKinds == {e.kind : e \in InitElements}
NonEmptyIdLists(kind) ==
    IF kind \in ListedKinds
    THEN UNION {[1 .. n -> IdStrsFor(kind)] : n \in 1 .. MaxListLen}
    ELSE {}

\* ------------------------------------------------------------ responses
NoDetail == [msg |-> "", kind |-> "", ids |-> {}]
Detail(m) == [msg |-> m, kind |-> "", ids |-> {}]

\* A request record once its handler has answered with `status`; `stage` names
\* the step of the handler that produced the answer.
Respond(rec, stage, status, detail) ==
    [rec EXCEPT !.pc = "done", !.status = status, !.detail = detail, !.stage = stage]

IdleReq ==
    [ pc |-> "idle", op |-> "none", user |-> "u1",
      name |-> NoName, resume_id |-> <<"zz", 0>>,
      el_kind |-> "heading", el_id |-> <<"zz", 0>>,
      ids |-> [k \in Kinds |-> NoList],
      k |-> 0, object_ids |-> <<>>, max_resume |-> 0,
      update_name |-> NoName,
      update_ids |-> [k \in Kinds |-> NoList],
      resume_object_id |-> Null,
      doc_name |-> "", doc_ids |-> [k \in Kinds |-> <<>>],
      populated |-> [k \in Kinds |-> {}], sections |-> <<>>,
      temp_dir |-> Null, compiled |-> "", thumbnail_bytes |-> FALSE,
      latex_url |-> Null, latex_public_id |-> Null,
      cloudinary_url |-> Null, cloudinary_public_id |-> Null,
      thumbnail_url |-> Null, thumbnail_public_id |-> Null,
      pending_status |-> 0, pending_detail |-> NoDetail,
      events |-> {},
      status |-> 0, detail |-> NoDetail, stage |-> "" ]

Active(r) == req[r].pc \notin {"idle", "closed"}
LoopFree(r) == running \in {0, r}

\* The program locations at which a coroutine is suspended in an await on the
\* document store; at every other location of a started request its
\* synchronous code is running on the event loop.
AwaitLabels ==
    {"c_max", "c_count", "v_query", "c_insert", "u_find", "u_update", "u_refetch",
     "g_find", "p_query", "find_user", "update_record", "d_find", "d_delete",
     "r_find", "x_find", "x_delete"}

\* After a step of request r: r keeps the loop unless it is now suspended in
\* an await or its handler is over.
Yield(r) ==
    running' = IF req'[r].pc \in AwaitLabels \cup {"closed"} THEN 0 ELSE r

\* ------------------------------------------------------------ the store
\* collection.find({"_id": {"$in": object_ids}, "user_id": user_id})
Find(kind, object_ids, user_id) ==
    {e \in elements :
        e.kind = kind /\ e.id \in SeqToSet(object_ids) /\ e.user_id = user_id}

\* A find_one by id alone, whoever owns the document.
FindResume_any_owner(oid, user_id) ==
    {d \in custom_resumes : d.id = oid}

\* custom_resumes_collection.find_one({"_id": oid, "user_id": user_id})
FindResume(oid, user_id) ==
    {d \in custom_resumes : d.id = oid /\ d.user_id = user_id}

\* custom_resumes_collection.find_one({"_id": oid})
FindResumeById(oid) == {d \in custom_resumes : d.id = oid}

\* update_one({"_id": oid}, {"$set": ...}): set[d] is document d after $set.
UpdateOne(oid, set) ==
    {IF d.id = oid THEN set[d] ELSE d : d \in custom_resumes}

ResumeIndex(oid) == StrOfObjectId(oid)[2]

NoOut == [status |-> 0, result |-> <<>>, named |-> {}, queried |-> FALSE]
NoCall == [fn |-> "none", ids |-> <<>>, kind |-> "heading", user_id |-> "u1",
           returned |-> FALSE, out |-> NoOut]

\* The resume an earlier, successful create of u1 (request 0) has left: name
\* "cv", one education, all six artifact fields set.
SeedResume ==
    [ id |-> NewResumeId(0), user_id |-> "u1", name |-> "cv",
      ids |-> [kd \in Kinds |->
                 IF kd = "education" THEN <<ObjectId(<<"e", 1>>)>> ELSE <<>>],
      latex_url |-> Url("latex", 0), latex_public_id |-> PublicId("latex", 0),
      cloudinary_url |-> Url("pdf", 0), cloudinary_public_id |-> PublicId("pdf", 0),
      thumbnail_url |-> Url("thumbnail", 0),
      thumbnail_public_id |-> PublicId("thumbnail", 0) ]
SeedCloud == {PublicId("latex", 0), PublicId("pdf", 0), PublicId("thumbnail", 0)}

\* The service starts either with no custom resume or with the one above.
Init ==
    /\ elements = InitElements
    /\ \/ custom_resumes = {} /\ cloud = {}
       \/ custom_resumes = {SeedResume} /\ cloud = SeedCloud
    /\ fs = {}
    /\ req = [r \in Reqs |-> IdleReq]
    /\ running = 0
    /\ meta_writer = [n \in 0 .. MaxRequests |-> 0]
    /\ final_writes = [n \in 0 .. MaxRequests |-> <<>>]
    /\ call = NoCall

\* ------------------------------------------------- validate_referenced_ids
\* The loop over id_str (ObjectId(id_str) raising on the first malformed one):
\* the index of the first malformed identifier, 0 if all parse.
FirstMalformed(ids) ==
    LET bad == {i \in DOMAIN ids : ~IsObjectIdStr(ids[i])}
    IN  IF bad = {} THEN 0 ELSE CHOOSE i \in bad : \A j \in bad : i <= j

object_ids_of(ids) == [i \in DOMAIN ids |-> ObjectId(ids[i])]

\* The set difference taken for the education list only.
missing_ids_education_only(object_ids, kind, user_id) ==
    IF kind = "education"
    THEN SeqToSet(object_ids) \
            {e.id : e \in {x \in elements : x.kind = kind /\ x.user_id = user_id}}
    ELSE {}

\* The set difference taken against the documents of every owner.
missing_ids_any_owner(object_ids, kind, user_id) ==
    SeqToSet(object_ids) \ {e.id : e \in {x \in elements : x.kind = kind}}

\* missing_ids = set(object_ids) - found_ids, found_ids from the find() on the
\* collection of `kind` filtered by the user.
missing_ids(object_ids, kind, user_id) ==
    SeqToSet(object_ids) \ {doc.id : doc \in Find(kind, object_ids, user_id)}

\* A validate_referenced_ids that leaves the identifiers that do not parse out
\* of the query and reports a malformed one only when the others are found.
validate_referenced_ids_query_first(ids, kind, user_id) ==
    IF ids = <<>>
    THEN [status |-> 200, result |-> <<>>, named |-> {}, queried |-> FALSE]
    ELSE LET bad == FirstMalformed(ids)
             object_ids == object_ids_of(SelectSeq(ids, IsObjectIdStr))
             miss == missing_ids(object_ids, kind, user_id)
         IN  IF miss # {}
             THEN [status |-> 404, result |-> <<>>,
                   named |-> {StrOfObjectId(o) : o \in miss}, queried |-> TRUE]
             ELSE IF bad # 0
             THEN [status |-> 400, result |-> <<>>, named |-> {ids[bad]},
                   queried |-> TRUE]
             ELSE [status |-> 200, result |-> object_ids, named |-> {},
                   queried |-> TRUE]

\* validate_referenced_ids as one call: [status, result, named, queried].
\* status 200: it returned `result`; 400 / 404: it raised HTTPException naming
\* `named`.  queried: the call reached collection.find().
validate_referenced_ids(ids, kind, user_id) ==
    IF ids = <<>>
    THEN [status |-> 200, result |-> <<>>, named |-> {}, queried |-> FALSE]
    ELSE LET bad == FirstMalformed(ids)
             object_ids == object_ids_of(ids)
             miss == missing_ids(object_ids, kind, user_id)
         IN  IF bad # 0
             THEN [status |-> 400, result |-> <<>>, named |-> {ids[bad]},
                   queried |-> FALSE]
             ELSE IF miss # {}
             THEN [status |-> 404, result |-> <<>>,
                   named |-> {StrOfObjectId(o) : o \in miss}, queried |-> TRUE]
             ELSE [status |-> 200, result |-> object_ids, named |-> {},
                   queried |-> TRUE]

KindsBetween(k0, j) == {KindOrder[i] : i \in k0 .. (j - 1)}
ProvidedCount(rec) == Cardinality({kd \in Kinds : rec.ids[kd].some})

\* The kinds from k0 up to (not including) j are read and need no query: in a
\* create body each of them is an empty list; in an update body each is absent
\* (None), except those in E, which are present and empty.
SkipKinds(rec, k0, j, E) ==
    LET read(kd, old) ==
            IF kd \in KindsBetween(k0, j)
            THEN (IF kd \in E THEN Some(<<>>) ELSE NoList)
            ELSE old
    IN  [rec EXCEPT !.ids = [kd \in Kinds |-> read(kd, rec.ids[kd])],
                    !.update_ids = [kd \in Kinds |-> read(kd, rec.update_ids[kd])]]

SkipChoices(rec, k0, j, more) ==
    IF rec.op = "create"
    THEN {KindsBetween(k0, j)}
    ELSE {E \in SUBSET (KindsBetween(k0, j) \cap ListedKinds) :
            Cardinality(E) + ProvidedCount(rec) + more <= MaxProvided}

\* The non-empty list L of kind KindOrder[j] is read: its identifiers are
\* parsed (400 on the first malformed one), then the query is issued.
ReadList(rec, j, L) ==
    LET kind == KindOrder[j]
        rec1 == [rec EXCEPT !.ids[kind] = Some(L), !.k = j]
        bad  == FirstMalformed(L)
    IN  IF bad # 0
        THEN Respond([rec1 EXCEPT !.events = @ \cup {"invalid_ref"}], "validate", 400,
                     [msg |-> "Invalid ID format", kind |-> kind, ids |-> {L[bad]}])
        ELSE [rec1 EXCEPT !.pc = "v_query", !.object_ids = object_ids_of(L)]

\* All eight lists are validated: the handler goes on to its write.
AllValidated(rec) ==
    [rec EXCEPT !.pc = IF rec.op = "create" THEN "c_insert" ELSE "u_update"]

\* The handler's synchronous run through the validate_referenced_ids calls from
\* kind number k0 on, up to its next await or its answer.
NextValidation(rec, k0) ==
    UNION { UNION { {ReadList(SkipKinds(rec, k0, j, E), j, L) : L \in NonEmptyIdLists(KindOrder[j])}
                    : E \in SkipChoices(rec, k0, j, 1) }
            : j \in k0 .. NumKinds }
    \cup
    { AllValidated(SkipKinds(rec, k0, NumKinds + 1, E))
        : E \in SkipChoices(rec, k0, NumKinds + 1, 0) }

\* The awaited find() of validate_referenced_ids returns.
ValidateQuery(r) ==
    /\ req[r].pc = "v_query"
    /\ LoopFree(r)
    /\ LET rec  == req[r]
           kind == KindOrder[rec.k]
           miss == missing_ids(rec.object_ids, kind, rec.user)
       IN  IF miss # {}
           THEN req' = [req EXCEPT ![r] =
                    Respond([rec EXCEPT !.events = @ \cup {"invalid_ref"}], "validate", 404,
                            [msg |-> "IDs not found or do not belong to user",
                             kind |-> kind, ids |-> {StrOfObjectId(o) : o \in miss}])]
           ELSE \E nr \in NextValidation(
                            [rec EXCEPT !.update_ids[kind] = Some(rec.object_ids)],
                            rec.k + 1) :
                    req' = [req EXCEPT ![r] = nr]
    /\ Yield(r)
    /\ UNCHANGED <<elements, custom_resumes, cloud, fs, meta_writer, final_writes, call>>

\* ------------------------------------------------------ populate_references
\* The run through populate_references from kind number k0 on: a kind whose
\* list in the document is empty is skipped without a query.
NextPopulate(rec, k0) ==
    LET todo == {j \in k0 .. NumKinds : rec.doc_ids[KindOrder[j]] # <<>>}
    IN  IF todo = {}
        THEN (IF rec.op = "get"
              THEN Respond(rec, "return", 200, Detail("CustomResumeResponse"))
              ELSE [rec EXCEPT !.pc = "find_user"])
        ELSE [rec EXCEPT !.pc = "p_query",
                         !.k = CHOOSE j \in todo : \A i \in todo : j <= i]

\* A populate_references that answers 404 when a referenced element is not
\* found.
PopulateQuery_missing_is_404(r) ==
    /\ req[r].pc = "p_query"
    /\ LoopFree(r)
    /\ LET rec  == req[r]
           kind == KindOrder[rec.k]
           docs == Find(kind, rec.doc_ids[kind], rec.user)
       IN  req' = [req EXCEPT ![r] =
                      IF missing_ids(rec.doc_ids[kind], kind, rec.user) # {}
                      THEN Respond(rec, "populate", 404, Detail("Element not found"))
                      ELSE NextPopulate([rec EXCEPT !.populated[kind] = docs],
                                        rec.k + 1)]
    /\ Yield(r)
    /\ UNCHANGED <<elements, custom_resumes, cloud, fs, meta_writer, final_writes, call>>

PopulateQuery(r) ==
    /\ req[r].pc = "p_query"
    /\ LoopFree(r)
    /\ LET rec  == req[r]
           kind == KindOrder[rec.k]
           docs == Find(kind, rec.doc_ids[kind], rec.user)
       IN  req' = [req EXCEPT ![r] =
                      NextPopulate([rec EXCEPT !.populated[kind] = docs], rec.k + 1)]
    /\ Yield(r)
    /\ UNCHANGED <<elements, custom_resumes, cloud, fs, meta_writer, final_writes, call>>

\* ------------------------------------------------------ create_custom_resume
\* get_user_max_resume: the user's max_resume, INITIAL_MAX_RESUMES by default.
get_user_max_resume(user_id) == INITIAL_MAX_RESUMES

CreateMaxResume(r) ==
    /\ req[r].pc = "c_max"
    /\ LoopFree(r)
    /\ req' = [req EXCEPT ![r].max_resume = get_user_max_resume(req[r].user),
                          ![r].pc = "c_count"]
    /\ Yield(r)
    /\ UNCHANGED <<elements, custom_resumes, cloud, fs, meta_writer, final_writes, call>>

CreateCount(r) ==
    /\ req[r].pc = "c_count"
    /\ LoopFree(r)
    /\ LET rec == req[r]
           resume_count == Cardinality({d \in custom_resumes : d.user_id = rec.user})
       IN  IF resume_count >= rec.max_resume
           THEN req' = [req EXCEPT ![r] =
                    Respond(rec, "limit", 400, Detail("Maximum resume limit reached"))]
           ELSE \E nr \in NextValidation(rec, 1) : req' = [req EXCEPT ![r] = nr]
    /\ Yield(r)
    /\ UNCHANGED <<elements, custom_resumes, cloud, fs, meta_writer, final_writes, call>>

\* The document insert_one stores: name and the eight validated lists.
NewResumeDoc(r, rec) ==
    [ id |-> NewResumeId(r), user_id |-> rec.user, name |-> rec.name.val,
      ids |-> [kd \in Kinds |-> rec.update_ids[kd].val],
      latex_url |-> Null, latex_public_id |-> Null,
      cloudinary_url |-> Null, cloudinary_public_id |-> Null,
      thumbnail_url |-> Null, thumbnail_public_id |-> Null ]

CreateInsert(r) ==
    /\ req[r].pc = "c_insert"
    /\ LoopFree(r)
    /\ LET rec == req[r]
           doc == NewResumeDoc(r, rec)
       IN  /\ custom_resumes' = custom_resumes \cup {doc}
           /\ req' = [req EXCEPT ![r] =
                  NextPopulate([rec EXCEPT !.resume_object_id = doc.id,
                                           !.doc_name = doc.name,
                                           !.doc_ids = doc.ids,
                                           !.events = @ \cup {"meta_write"}], 1)]
    /\ meta_writer' = [meta_writer EXCEPT ![r] = r]
    /\ Yield(r)
    /\ UNCHANGED <<elements, cloud, fs, final_writes, call>>

\* ------------------------------------------------------ update_custom_resume
\* find_one({"_id": resume_object_id, "user_id": user_id}), then the name and
\* the validation of the lists present in the body.
UpdateFind(r) ==
    /\ req[r].pc = "u_find"
    /\ LoopFree(r)
    /\ LET rec == req[r]
       IN  IF FindResume(rec.resume_object_id, rec.user) = {}
           THEN req' = [req EXCEPT ![r] =
                    Respond(rec, "find", 404, Detail("Custom resume not found"))]
           ELSE \E nr \in NextValidation([rec EXCEPT !.update_name = rec.name], 1) :
                    req' = [req EXCEPT ![r] = nr]
    /\ Yield(r)
    /\ UNCHANGED <<elements, custom_resumes, cloud, fs, meta_writer, final_writes, call>>

\* A $set that writes all eight lists, the omitted ones as empty.
SetUpdateData_all_lists(rec, d) ==
    [d EXCEPT !.name = IF rec.update_name.some THEN rec.update_name.val ELSE @,
              !.ids = [kd \in Kinds |->
                         IF rec.update_ids[kd].some THEN rec.update_ids[kd].val ELSE <<>>]]

\* {"$set": update_data}: the name if given, each list that was present.
SetUpdateData(rec, d) ==
    [d EXCEPT !.name = IF rec.update_name.some THEN rec.update_name.val ELSE @,
              !.ids = [kd \in Kinds |->
                         IF rec.update_ids[kd].some THEN rec.update_ids[kd].val ELSE @[kd]]]

UpdateWrite(r) ==
    /\ req[r].pc = "u_update"
    /\ LoopFree(r)
    /\ LET rec == req[r]
           oid == rec.resume_object_id
           set == [d \in custom_resumes |-> SetUpdateData(rec, d)]
       IN  /\ custom_resumes' = UpdateOne(oid, set)
           /\ meta_writer' = IF FindResumeById(oid) # {}
                             THEN [meta_writer EXCEPT ![ResumeIndex(oid)] = r]
                             ELSE meta_writer
           /\ req' = [req EXCEPT ![r].pc = "u_refetch",
                                 ![r].events = @ \cup {"meta_write"}]
    /\ Yield(r)
    /\ UNCHANGED <<elements, cloud, fs, final_writes, call>>

\* updated = find_one({"_id": resume_object_id}); populate_references(updated, ..)
\* dereferences it: with no such document the handler dies with an unhandled
\* AttributeError, which the server answers with a bare 500.
UpdateRefetch(r) ==
    /\ req[r].pc = "u_refetch"
    /\ LoopFree(r)
    /\ LET rec == req[r]
           updated == FindResumeById(rec.resume_object_id)
       IN  IF updated = {}
           THEN req' = [req EXCEPT ![r] =
                    Respond(rec, "unhandled", 500, Detail("Internal Server Error"))]
           ELSE LET d == CHOOSE x \in updated : TRUE
                IN  req' = [req EXCEPT ![r] =
                        NextPopulate([rec EXCEPT !.doc_name = d.name,
                                                 !.doc_ids = d.ids], 1)]
    /\ Yield(r)
    /\ UNCHANGED <<elements, custom_resumes, cloud, fs, meta_writer, final_writes, call>>

\* --------------------------------------------------------------- generate_pdf
GenerateFind(r) ==
    /\ req[r].pc = "g_find"
    /\ LoopFree(r)
    /\ LET rec == req[r]
           found == FindResume(rec.resume_object_id, rec.user)
       IN  IF found = {}
           THEN req' = [req EXCEPT ![r] =
                    Respond(rec, "find", 404, Detail("Custom resume not found"))]
           ELSE LET d == CHOOSE x \in found : TRUE
                IN  req' = [req EXCEPT ![r] =
                        NextPopulate([rec EXCEPT !.doc_name = d.name,
                                                 !.doc_ids = d.ids], 1)]
    /\ Yield(r)
    /\ UNCHANGED <<elements, custom_resumes, cloud, fs, meta_writer, final_writes, call>>

\* ----------------------------------------------------------- get_custom_resume
\* find_one({"_id": resume_object_id, "user_id": user_id}), then populate and
\* the response built from the document.
GetFind(r) ==
    /\ req[r].pc = "r_find"
    /\ LoopFree(r)
    /\ LET rec == req[r]
           found == FindResume(rec.resume_object_id, rec.user)
       IN  IF found = {}
           THEN req' = [req EXCEPT ![r] =
                    Respond(rec, "find", 404, Detail("Custom resume not found"))]
           ELSE LET d == CHOOSE x \in found : TRUE
                IN  req' = [req EXCEPT ![r] =
                        NextPopulate([rec EXCEPT !.doc_name = d.name,
                                                 !.doc_ids = d.ids], 1)]
    /\ Yield(r)
    /\ UNCHANGED <<elements, custom_resumes, cloud, fs, meta_writer, final_writes, call>>

\* -------------------------------------------------------- delete_custom_resume
DeleteResumeFind(r) ==
    /\ req[r].pc = "x_find"
    /\ LoopFree(r)
    /\ LET rec == req[r]
       IN  req' = [req EXCEPT ![r] =
                     IF FindResume(rec.resume_object_id, rec.user) = {}
                     THEN Respond(rec, "find", 404, Detail("Custom resume not found"))
                     ELSE [rec EXCEPT !.pc = "x_delete"]]
    /\ Yield(r)
    /\ UNCHANGED <<elements, custom_resumes, cloud, fs, meta_writer, final_writes, call>>

delete_one_of_same_owner(oid) ==
    {d \in custom_resumes :
        \A x \in custom_resumes : x.id = oid => d.user_id # x.user_id}

\* custom_resumes_collection.delete_one({"_id": oid})
delete_one(oid) ==
    {d \in custom_resumes : d.id # oid}

\* The delete of delete_custom_resume; nothing else follows it.
DeleteResumeOne(r) ==
    /\ req[r].pc = "x_delete"
    /\ LoopFree(r)
    /\ custom_resumes' = delete_one(req[r].resume_object_id)
    /\ req' = [req EXCEPT ![r] =
                  Respond([req[r] EXCEPT !.events = @ \cup {"resume_delete"}],
                          "return", 204, NoDetail)]
    /\ meta_writer' = IF FindResumeById(req[r].resume_object_id) # {}
                      THEN [meta_writer EXCEPT
                                ![ResumeIndex(req[r].resume_object_id)] = r]
                      ELSE meta_writer
    /\ Yield(r)
    /\ UNCHANGED <<elements, cloud, fs, final_writes, call>>

\* users_collection.find_one({"_id": user_id}): the authenticated user's
\* document exists; generate_and_upload_resume_pdf is entered, and from here to
\* its update_one nothing is awaited on the store.
FindUser(r) ==
    /\ req[r].pc = "find_user"
    /\ LoopFree(r)
    /\ req' = [req EXCEPT ![r].pc = "render"]
    /\ Yield(r)
    /\ UNCHANGED <<elements, custom_resumes, cloud, fs, meta_writer, final_writes, call>>

\* ------------------------------------------- generate_and_upload_resume_pdf
TempDir(r) == [dir |-> r, file |-> "."]
TexFile(r) == [dir |-> r, file |-> "resume.tex"]
TexPdf(r) == [dir |-> r, file |-> "resume.pdf"]    \* <input_basename>.pdf
OutPdf(r) == [dir |-> r, file |-> "output.pdf"]    \* <output_name>.pdf
\* A removal of the directory entry alone.
rmtree_dir_only(files, dir) == files \ {dir}
rmtree(files, dir) == {p \in files : p.dir # dir.dir}

\* A fatal failure inside the try block: the exception is on its way out
\* through the finally clause.
Raise(rec, stage, event, msg) ==
    [rec EXCEPT !.pc = "cleanup", !.stage = stage, !.events = @ \cup {event},
                !.pending_status = 500, !.pending_detail = Detail(msg)]

\* ------------------------------------------------------------- escaping
\* A string is a sequence of characters; a run of letters counts as one.
Backslash == "\\"
ReservedOrder == <<"&", "%", "$", "#", "^", "_", "{", "}", "~">>

\* The replacement text of each str.replace call of escape_latex.
Replacement(ch) ==
    CASE ch = Backslash -> <<Backslash, "textbackslash", "{", "}">>
      [] ch = "^" -> <<Backslash, "textasciicircum", "{", "}">>
      [] ch = "~" -> <<Backslash, "textasciitilde", "{", "}">>
      [] OTHER -> <<Backslash, ch>>

\* text.replace(ch, repl): every occurrence, one pass over the text.
RECURSIVE replace(_, _, _)
replace(text, ch, repl) ==
    IF text = <<>> THEN <<>>
    ELSE (IF Head(text) = ch THEN repl ELSE <<Head(text)>>)
         \o replace(Tail(text), ch, repl)

RECURSIVE ReplaceFrom(_, _)
ReplaceFrom(text, k) ==
    IF k > Len(ReservedOrder) THEN text
    ELSE ReplaceFrom(replace(text, ReservedOrder[k], Replacement(ReservedOrder[k])),
                     k + 1)

\* escape_latex: "" for an empty text; else the backslash is replaced first,
\* then & % $ # ^ _ { } ~ one after the other, each over the whole text as
\* the replacements before it have left it.
escape_latex(text) ==
    IF text = <<>> THEN <<>>
    ELSE ReplaceFrom(replace(text, Backslash, Replacement(Backslash)), 1)

\* A format_date_range that joins with an en dash character.
format_date_range_en_dash(start_date, end_date) ==
    escape_latex(start_date) \o <<" ", "endash", " ">> \o escape_latex(end_date)

\* format_date_range: f"{start} -- {end}" of the two escaped strings.
format_date_range(start_date, end_date) ==
    escape_latex(start_date) \o <<" ", "-", "-", " ">> \o escape_latex(end_date)

\* ------------------------------------------------------------ the template
\* A text is a sequence of pieces: a line break, one of the two document
\* markers, or a run of other characters.
LineBreak == "nl"
BeginDocument == "begin{document}"
EndDocument == "end{document}"

\* str.find: the position of the first piece equal to `piece` at or after
\* position `start`, 0 (Python: -1) if there is none.
find(text, piece, start) ==
    LET hits == {i \in start .. Len(text) : text[i] = piece}
    IN  IF hits = {} THEN 0 ELSE CHOOSE i \in hits : \A j \in hits : i <= j

\* "\n\n".join(sections)
RECURSIVE join(_)
join(sections) ==
    IF sections = <<>> THEN <<>>
    ELSE IF Len(sections) = 1 THEN <<sections[1]>>
    ELSE <<sections[1], LineBreak, LineBreak>> \o join(Tail(sections))

\* A composition that insists on the opening marker only.
compose_checks_begin_only(template, sections) ==
    LET doc_start == find(template, BeginDocument, 1)
        newline == find(template, LineBreak, doc_start)
    IN  IF doc_start = 0
        THEN [raised |-> "ValueError", doc |-> <<>>]
        ELSE [raised |-> "",
              doc |-> SubSeq(template, 1, doc_start - 1)
                      \o (IF newline = 0 THEN <<BeginDocument>>
                          ELSE SubSeq(template, doc_start, newline))
                      \o <<LineBreak, LineBreak>> \o join(sections)
                      \o <<LineBreak, LineBreak, EndDocument>>]

\* The composition in generate_latex_from_resume: ValueError unless both
\* markers occur in the template; else the template up to the opening marker,
\* the marker up to and including the next line break (the marker alone if no
\* line break follows), a blank line, the sections joined by blank lines, a
\* blank line and the closing marker.
compose(template, sections) ==
    LET doc_start == find(template, BeginDocument, 1)
        doc_end == find(template, EndDocument, 1)
        newline == find(template, LineBreak, doc_start)
    IN  IF doc_start = 0 \/ doc_end = 0
        THEN [raised |-> "ValueError", doc |-> <<>>]
        ELSE [raised |-> "",
              doc |-> SubSeq(template, 1, doc_start - 1)
                      \o (IF newline = 0 THEN <<BeginDocument>>
                          ELSE SubSeq(template, doc_start, newline))
                      \o <<LineBreak, LineBreak>> \o join(sections)
                      \o <<LineBreak, LineBreak, EndDocument>>]

\* The template files a deployment may have: a regular one, one without the
\* opening marker, one without the closing marker, one without either.
DeployedTemplates ==
    { <<"text", LineBreak, BeginDocument, LineBreak, "text", LineBreak, EndDocument>>,
      <<"text", LineBreak, "text", LineBreak, EndDocument>>,
      <<"text", LineBreak, BeginDocument, LineBreak, "text">>,
      <<"text">> }

MarkerMissing(template) ==
    \/ \A i \in DOMAIN template : template[i] # BeginDocument
    \/ \A i \in DOMAIN template : template[i] # EndDocument

\* The kinds that have a section of their own, in the order of the document.
SectionOrder ==
    <<"education", "experience", "project", "skill", "certification", "award",
      "volunteer">>

\* The sections generate_latex_from_resume appends for the populated lists of
\* a request: the heading always, every other section "if resume_data.<list>".
RenderedSections(populated) ==
    LET filled(kd) == populated[kd] # {}
    IN  <<"heading">> \o SelectSeq(SectionOrder, filled)

\* generate_latex_from_resume reads the template file and composes the
\* document: it returns the markup or raises (file unreadable, template
\* without a document marker); the handler turns any exception into a 500
\* before a temporary directory exists.
Render(r) ==
    /\ req[r].pc = "render"
    /\ LoopFree(r)
    /\ \E readable \in BOOLEAN, template \in DeployedTemplates :
        LET out == IF readable
                   THEN compose(template, RenderedSections(req[r].populated))
                   ELSE [raised |-> "OSError", doc |-> <<>>]
            seen == IF readable /\ MarkerMissing(template)
                    THEN {"marker_missing"} ELSE {}
            rec == [req[r] EXCEPT !.events = @ \cup seen]
        IN  req' = [req EXCEPT ![r] =
                  IF out.raised = ""
                  THEN [rec EXCEPT !.pc = "mkdtemp",
                                   !.sections = RenderedSections(rec.populated)]
                  ELSE Respond([rec EXCEPT !.events = @ \cup {"render_fail"}],
                               "render", 500, Detail("Failed to generate LaTeX"))]
    /\ Yield(r)
    /\ UNCHANGED <<elements, custom_resumes, cloud, fs, meta_writer, final_writes, call>>

\* tempfile.mkdtemp(), the markup written to the .tex file, and compile_latex
\* called: subprocess.run has started pdflatex and waits for it.
MakeTempDir(r) ==
    /\ req[r].pc = "mkdtemp"
    /\ LoopFree(r)
    /\ fs' = fs \cup {TempDir(r), TexFile(r)}
    /\ req' = [req EXCEPT ![r].pc = "compiling",
                          ![r].temp_dir = TempDir(r),
                          ![r].events = @ \cup {"tmp_created"}]
    /\ Yield(r)
    /\ UNCHANGED <<elements, custom_resumes, cloud, meta_writer, final_writes, call>>

\* What the pdflatex process can do: not be installed; or exit with status
\* returncode, having written <input_basename>.pdf or not.
CompilerOutcomes ==
    {[installed |-> FALSE, returncode |-> 0, pdf |-> FALSE]} \cup
    [installed : {TRUE}, returncode : {0, 1}, pdf : BOOLEAN]

\* The files in the directory when pdflatex has run.
AfterPdflatex(files, r, out) ==
    files \cup (IF out.installed /\ out.pdf THEN {TexPdf(r)} ELSE {})

\* A compile_latex that raises when pdflatex exits 0 and left no PDF.
compile_latex_raises_without_pdf(files, r, out) ==
    LET after == AfterPdflatex(files, r, out)
    IN  IF out.installed /\ out.returncode = 0 /\ TexPdf(r) \in after
        THEN [result |-> "path", files |-> (after \ {TexPdf(r)}) \cup {OutPdf(r)}]
        ELSE [result |-> "RuntimeError", files |-> after]

\* compile_latex: [result, files]; result is "path" (the renamed PDF's path is
\* returned), "None" (returned None) or "RuntimeError" (raised).
compile_latex(files, r, out) ==
    LET after == AfterPdflatex(files, r, out)
    IN  IF ~out.installed THEN [result |-> "RuntimeError", files |-> after]
        ELSE IF out.returncode = 0
        THEN (IF TexPdf(r) \in after
              THEN [result |-> "path",
                    files |-> (after \ {TexPdf(r)}) \cup {OutPdf(r)}]
              ELSE [result |-> "None", files |-> after])
        ELSE [result |-> "RuntimeError", files |-> after]

\* pdflatex is over; compile_latex returns or raises, and the handler checks
\* the returned path.
CompilerExits(r) ==
    /\ req[r].pc = "compiling"
    /\ LoopFree(r)
    /\ \E out \in CompilerOutcomes :
        LET c == compile_latex(fs, r, out)
            rec == [req[r] EXCEPT !.compiled = c.result]
        IN  /\ fs' = c.files
            /\ req' = [req EXCEPT ![r] =
                  IF c.result = "RuntimeError"
                  THEN Raise(rec, "compile", "compile_fail", "LaTeX compilation failed")
                  ELSE IF c.result = "None" \/ OutPdf(r) \notin c.files
                  THEN Raise(rec, "compile", "compile_fail",
                             "LaTeX compilation failed: PDF was not generated")
                  ELSE [rec EXCEPT !.pc = "rasterize"]]
    /\ Yield(r)
    /\ UNCHANGED <<elements, custom_resumes, cloud, meta_writer, final_writes, call>>

\* convert_first_page_to_image: TRUE when it returns the PNG bytes, FALSE when
\* it raises (the document has no page, or it cannot be opened or rendered).
RasterOutcomes == {"png", "no_pages", "error"}
convert_first_page_to_image(out) == out = "png"

\* The thumbnail attempt: an exception leaves thumbnail_bytes None.
Rasterize(r) ==
    /\ req[r].pc = "rasterize"
    /\ LoopFree(r)
    /\ \E out \in RasterOutcomes :
        req' = [req EXCEPT ![r] =
                  IF convert_first_page_to_image(out)
                  THEN [req[r] EXCEPT !.pc = "upload_latex", !.thumbnail_bytes = TRUE]
                  ELSE [req[r] EXCEPT !.pc = "upload_latex",
                                      !.events = @ \cup {"raster_fail"}]]
    /\ Yield(r)
    /\ UNCHANGED <<elements, custom_resumes, cloud, fs, meta_writer, final_writes, call>>

\* An upload to the artifact store: [ok, url, public_id]; not ok: it raised.
upload_latex_from_bytes(r, ok) ==
    [ok |-> ok, url |-> Url("latex", r), public_id |-> PublicId("latex", r)]
upload_pdf(r, ok) ==
    [ok |-> ok, url |-> Url("pdf", r), public_id |-> PublicId("pdf", r)]
upload_image_from_bytes(r, ok) ==
    [ok |-> ok, url |-> Url("thumbnail", r), public_id |-> PublicId("thumbnail", r)]

\* A markup upload whose failure is noted and the run goes on.
UploadLatex_goes_on(r) ==
    /\ req[r].pc = "upload_latex"
    /\ LoopFree(r)
    /\ \E ok \in BOOLEAN :
        LET res == upload_latex_from_bytes(r, ok)
        IN  IF res.ok
            THEN /\ cloud' = cloud \cup {res.public_id}
                 /\ req' = [req EXCEPT ![r].pc = "upload_pdf",
                                       ![r].latex_url = res.url,
                                       ![r].latex_public_id = res.public_id]
            ELSE /\ cloud' = cloud
                 /\ req' = [req EXCEPT ![r].pc = "upload_pdf",
                                       ![r].events = @ \cup {"upload_latex_fail"}]
    /\ Yield(r)
    /\ UNCHANGED <<elements, custom_resumes, fs, meta_writer, final_writes, call>>

UploadLatex(r) ==
    /\ req[r].pc = "upload_latex"
    /\ LoopFree(r)
    /\ \E ok \in BOOLEAN :
        LET res == upload_latex_from_bytes(r, ok)
        IN  IF res.ok
            THEN /\ cloud' = cloud \cup {res.public_id}
                 /\ req' = [req EXCEPT ![r].pc = "upload_pdf",
                                       ![r].latex_url = res.url,
                                       ![r].latex_public_id = res.public_id]
            ELSE /\ cloud' = cloud
                 /\ req' = [req EXCEPT ![r] =
                        Raise(req[r], "upload_latex", "upload_latex_fail",
                              "Failed to upload LaTeX to Cloudinary")]
    /\ Yield(r)
    /\ UNCHANGED <<elements, custom_resumes, fs, meta_writer, final_writes, call>>

\* After the PDF upload the thumbnail upload follows if there are thumbnail
\* bytes; otherwise the handler awaits its update_one.
UploadPdf(r) ==
    /\ req[r].pc = "upload_pdf"
    /\ LoopFree(r)
    /\ \E ok \in BOOLEAN :
        LET res == upload_pdf(r, ok)
        IN  IF res.ok
            THEN /\ cloud' = cloud \cup {res.public_id}
                 /\ req' = [req EXCEPT ![r].pc = IF req[r].thumbnail_bytes
                                                 THEN "upload_thumb" ELSE "update_record",
                                       ![r].cloudinary_url = res.url,
                                       ![r].cloudinary_public_id = res.public_id]
            ELSE /\ cloud' = cloud
                 /\ req' = [req EXCEPT ![r] =
                        Raise(req[r], "upload_pdf", "upload_pdf_fail",
                              "Failed to upload PDF to Cloudinary")]
    /\ Yield(r)
    /\ UNCHANGED <<elements, custom_resumes, fs, meta_writer, final_writes, call>>

\* A thumbnail upload whose exception ends the run.
UploadThumbnail_fatal(r) ==
    /\ req[r].pc = "upload_thumb"
    /\ LoopFree(r)
    /\ \E ok \in BOOLEAN :
        IF ok
        THEN /\ cloud' = cloud \cup {PublicId("thumbnail", r)}
             /\ req' = [req EXCEPT ![r].pc = "update_record",
                                   ![r].thumbnail_url = Url("thumbnail", r),
                                   ![r].thumbnail_public_id = PublicId("thumbnail", r)]
        ELSE /\ cloud' = cloud
             /\ req' = [req EXCEPT ![r] =
                    Raise(req[r], "upload_thumb", "upload_thumb_fail",
                          "Failed to upload thumbnail")]
    /\ Yield(r)
    /\ UNCHANGED <<elements, custom_resumes, fs, meta_writer, final_writes, call>>

\* The thumbnail upload: an exception is printed and the run goes on.
UploadThumbnail(r) ==
    /\ req[r].pc = "upload_thumb"
    /\ LoopFree(r)
    /\ \E ok \in BOOLEAN :
        LET res == upload_image_from_bytes(r, ok)
        IN  IF res.ok
            THEN /\ cloud' = cloud \cup {res.public_id}
                 /\ req' = [req EXCEPT ![r].pc = "update_record",
                                       ![r].thumbnail_url = res.url,
                                       ![r].thumbnail_public_id = res.public_id]
            ELSE /\ cloud' = cloud
                 /\ req' = [req EXCEPT ![r].pc = "update_record",
                                       ![r].events = @ \cup {"upload_thumb_fail"}]
    /\ Yield(r)
    /\ UNCHANGED <<elements, custom_resumes, fs, meta_writer, final_writes, call>>

\* A final update of the markup fields alone.
SetArtifacts_markup_only(rec, d) ==
    [d EXCEPT !.latex_url = rec.latex_url,
              !.latex_public_id = rec.latex_public_id]

\* A final update that leaves a field alone when the run's value is null.
SetArtifacts_keeps_null(rec, d) ==
    [d EXCEPT !.latex_url = rec.latex_url,
              !.latex_public_id = rec.latex_public_id,
              !.cloudinary_url = rec.cloudinary_url,
              !.cloudinary_public_id = rec.cloudinary_public_id,
              !.thumbnail_url = IF rec.thumbnail_url = Null THEN @ ELSE rec.thumbnail_url,
              !.thumbnail_public_id = IF rec.thumbnail_public_id = Null
                                      THEN @ ELSE rec.thumbnail_public_id]

\* A final update that sets the three urls and leaves the storage ids alone.
SetArtifacts_urls_only(rec, d) ==
    [d EXCEPT !.latex_url = rec.latex_url,
              !.cloudinary_url = rec.cloudinary_url,
              !.thumbnail_url = rec.thumbnail_url]

\* {"$set": update_data} of the final update: all six artifact fields.
SetArtifacts(rec, d) ==
    [d EXCEPT !.latex_url = rec.latex_url,
              !.latex_public_id = rec.latex_public_id,
              !.cloudinary_url = rec.cloudinary_url,
              !.cloudinary_public_id = rec.cloudinary_public_id,
              !.thumbnail_url = rec.thumbnail_url,
              !.thumbnail_public_id = rec.thumbnail_public_id]

\* A final update that has written the fields also when the store raises.
UpdateRecord_writes_then_raises(r) ==
    /\ req[r].pc = "update_record"
    /\ LoopFree(r)
    /\ \E ok \in BOOLEAN :
        LET rec == req[r]
            oid == rec.resume_object_id
            set == [d \in custom_resumes |-> SetArtifacts(rec, d)]
        IN  /\ custom_resumes' = UpdateOne(oid, set)
            /\ IF ok
               THEN /\ final_writes' =
                          IF FindResumeById(oid) # {}
                          THEN [final_writes EXCEPT ![ResumeIndex(oid)] = Append(@, r)]
                          ELSE final_writes
                    /\ req' = [req EXCEPT ![r].pc = "cleanup",
                                          ![r].stage = "return",
                                          ![r].events = @ \cup {"final_write"},
                                          ![r].pending_status = 200,
                                          ![r].pending_detail = Detail("pdf_bytes")]
               ELSE /\ final_writes' = final_writes
                    /\ req' = [req EXCEPT ![r] =
                           Raise(rec, "update_record", "update_fail",
                                 "Failed to generate PDF")]
    /\ Yield(r)
    /\ UNCHANGED <<elements, cloud, fs, meta_writer, call>>

\* The awaited update_one of the artifact fields returns, or the store raises.
\* On return the PDF is read and (pdf_bytes, cloudinary_data) is on its way
\* out through the finally clause.
UpdateRecord(r) ==
    /\ req[r].pc = "update_record"
    /\ LoopFree(r)
    /\ \E ok \in BOOLEAN :
        LET rec == req[r]
            oid == rec.resume_object_id
            set == [d \in custom_resumes |-> SetArtifacts(rec, d)]
        IN  IF ok
            THEN /\ custom_resumes' = UpdateOne(oid, set)
                 /\ final_writes' =
                        IF FindResumeById(oid) # {}
                        THEN [final_writes EXCEPT ![ResumeIndex(oid)] = Append(@, r)]
                        ELSE final_writes
                 /\ req' = [req EXCEPT ![r].pc = "cleanup",
                                       ![r].stage = "return",
                                       ![r].events = @ \cup {"final_write"},
                                       ![r].pending_status = 200,
                                       ![r].pending_detail = Detail("pdf_bytes")]
            ELSE /\ custom_resumes' = custom_resumes
                 /\ final_writes' = final_writes
                 /\ req' = [req EXCEPT ![r] =
                        Raise(rec, "update_record", "update_fail", "Failed to generate PDF")]
    /\ Yield(r)
    /\ UNCHANGED <<elements, cloud, fs, meta_writer, call>>

\* A finally clause that also undoes the metadata write of a failed run.
Cleanup_rolls_back(r) ==
    /\ req[r].pc = "cleanup"
    /\ LoopFree(r)
    /\ LET rec == req[r]
       IN  /\ fs' = IF rec.temp_dir # Null THEN rmtree(fs, rec.temp_dir) ELSE fs
           /\ custom_resumes' =
                 IF rec.pending_status = 500
                 THEN {d \in custom_resumes : d.id # rec.resume_object_id}
                 ELSE custom_resumes
           /\ req' = [req EXCEPT ![r] =
                  Respond(rec, rec.stage, rec.pending_status, rec.pending_detail)]
    /\ Yield(r)
    /\ UNCHANGED <<elements, cloud, meta_writer, final_writes, call>>

\* The finally clause: shutil.rmtree(temp_dir) if the directory exists; if
\* rmtree raises, a warning is printed and nothing else happens.  Then the
\* result or the exception reaches the route, which answers.
Cleanup(r) ==
    /\ req[r].pc = "cleanup"
    /\ LoopFree(r)
    /\ LET rec == req[r]
       IN  IF rec.temp_dir # Null /\ rec.temp_dir \in fs
           THEN \E removed \in BOOLEAN :
                    IF removed
                    THEN /\ fs' = rmtree(fs, rec.temp_dir)
                         /\ req' = [req EXCEPT ![r] =
                               Respond(rec, rec.stage, rec.pending_status,
                                       rec.pending_detail)]
                    ELSE /\ fs' = fs
                         /\ req' = [req EXCEPT ![r] =
                               Respond([rec EXCEPT !.events = @ \cup {"rmtree_fail"}],
                                       rec.stage, rec.pending_status, rec.pending_detail)]
           ELSE /\ fs' = fs
                /\ req' = [req EXCEPT ![r] =
                       Respond(rec, rec.stage, rec.pending_status, rec.pending_detail)]
    /\ Yield(r)
    /\ UNCHANGED <<elements, custom_resumes, cloud, meta_writer, final_writes, call>>

\* ------------------------------------------------- delete_<element> routes
\* find_one({"_id": oid, "user_id": user}) on the collection of the kind.
DeleteFind(r) ==
    /\ req[r].pc = "d_find"
    /\ LoopFree(r)
    /\ LET rec == req[r]
           found == Find(rec.el_kind, <<ObjectId(rec.el_id)>>, rec.user)
       IN  req' = [req EXCEPT ![r] =
                     IF found = {}
                     THEN Respond(rec, "find", 404, Detail("Not found"))
                     ELSE [rec EXCEPT !.pc = "d_delete"]]
    /\ Yield(r)
    /\ UNCHANGED <<elements, custom_resumes, cloud, fs, meta_writer, final_writes, call>>

\* delete_one({"_id": oid})
DeleteOne(r) ==
    /\ req[r].pc = "d_delete"
    /\ LoopFree(r)
    /\ elements' = {e \in elements :
                      ~(e.kind = req[r].el_kind /\ e.id = ObjectId(req[r].el_id))}
    /\ req' = [req EXCEPT ![r] = Respond(req[r], "return", 204, NoDetail)]
    /\ Yield(r)
    /\ UNCHANGED <<custom_resumes, cloud, fs, meta_writer, final_writes, call>>

\* --------------------------------------------------------------- requests
\* A request arrives and its handler runs up to its first await.
StartCreate(r) ==
    \E name \in CreateNames :
        req' = [req EXCEPT ![r] =
                  [IdleReq EXCEPT !.op = "create", !.user = "u1",
                                  !.name = Some(name), !.pc = "c_max"]]

\* The first await of each route that takes a resume id.
FirstAwait(op) ==
    CASE op = "update" -> "u_find"
      [] op = "generate" -> "g_find"
      [] op = "get" -> "r_find"
      [] op = "delete_resume" -> "x_find"

\* get, update, delete and generate-pdf parse the resume id of the path first.
StartOnResume(r, op, user, resume_id, name) ==
    LET rec == [IdleReq EXCEPT !.op = op, !.user = user, !.name = name,
                               !.resume_id = resume_id]
    IN  req' = [req EXCEPT ![r] =
                  IF ~IsObjectIdStr(resume_id)
                  THEN Respond(rec, "parse", 400, Detail("Invalid custom resume ID format"))
                  ELSE [rec EXCEPT !.resume_object_id = ObjectId(resume_id),
                                   !.pc = FirstAwait(op)]]

\* The resume ids a request path offers: those of the stored resumes, an id of
\* no document, and a malformed string.
ResumeIdStrs ==
    {StrOfObjectId(d.id) : d \in custom_resumes} \cup MissingIdStrs \cup MalformedIdStrs

StartUpdate(r) ==
    \E user \in Users, resume_id \in ResumeIdStrs,
       name \in {NoName} \cup {Some(n) : n \in UpdateNames} :
        StartOnResume(r, "update", user, resume_id, name)

StartGenerate(r) ==
    \E user \in Users, resume_id \in ResumeIdStrs :
        StartOnResume(r, "generate", user, resume_id, NoName)

StartGet(r) ==
    \E user \in Users, resume_id \in ResumeIdStrs :
        StartOnResume(r, "get", user, resume_id, NoName)

StartDeleteResume(r) ==
    \E user \in Users, resume_id \in ResumeIdStrs :
        StartOnResume(r, "delete_resume", user, resume_id, NoName)

\* The element a delete request names: a stored element of either owner, or,
\* on the education route, an id of no document or a malformed string.
DeleteChoices ==
    {<<e.kind, StrOfObjectId(e.id)>> : e \in elements}
        \cup {<<"education", s>> : s \in MissingIdStrs \cup MalformedIdStrs}

StartDeleteElement(r) ==
    \E c \in DeleteChoices :
        LET rec == [IdleReq EXCEPT !.op = "delete_element", !.user = "u1",
                                   !.el_kind = c[1], !.el_id = c[2]]
        IN  req' = [req EXCEPT ![r] =
                      IF ~IsObjectIdStr(c[2])
                      THEN Respond(rec, "parse", 400, Detail("Invalid ID format"))
                      ELSE [rec EXCEPT !.pc = "d_find"]]

CanStart(r) ==
    /\ req[r].pc = "idle"
    /\ \A q \in Reqs : q < r => req[q].pc # "idle"
    /\ running = 0

Start(r) ==
    /\ CanStart(r)
    /\ \/ StartCreate(r)
       \/ StartUpdate(r)
       \/ StartGenerate(r)
       \/ StartGet(r)
       \/ StartDeleteResume(r)
       \/ StartDeleteElement(r)
    /\ Yield(r)
    /\ UNCHANGED <<elements, custom_resumes, cloud, fs, meta_writer, final_writes, call>>

\* The handler has answered (pc = "done": the response and the handler's
\* locals are still in view); the coroutine ends and its frame is released.
Close(r) ==
    /\ req[r].pc = "done"
    /\ running = r
    /\ req' = [req EXCEPT ![r] = [IdleReq EXCEPT !.pc = "closed"]]
    /\ Yield(r)
    /\ UNCHANGED <<elements, custom_resumes, cloud, fs, meta_writer, final_writes, call>>

\* One step of request r.
Step(r) ==
    \/ Start(r)
    \/ CreateMaxResume(r)
    \/ CreateCount(r)
    \/ ValidateQuery(r)
    \/ CreateInsert(r)
    \/ UpdateFind(r)
    \/ UpdateWrite(r)
    \/ UpdateRefetch(r)
    \/ GenerateFind(r)
    \/ GetFind(r)
    \/ DeleteResumeFind(r)
    \/ DeleteResumeOne(r)
    \/ PopulateQuery(r)
    \/ FindUser(r)
    \/ Render(r)
    \/ MakeTempDir(r)
    \/ CompilerExits(r)
    \/ Rasterize(r)
    \/ UploadLatex(r)
    \/ UploadPdf(r)
    \/ UploadThumbnail(r)
    \/ UpdateRecord(r)
    \/ Cleanup(r)
    \/ DeleteFind(r)
    \/ DeleteOne(r)
    \/ Close(r)

Next == \E r \in Reqs : Step(r)

Spec == Init /\ [][Next]_vars

\* ------------------------------------------------------------- properties
\* The request has read, in one of its lists, an identifier that is malformed,
\* is the id of no element of that kind, or is the id of another user's
\* element (elements are never created here, so InitElements holds every
\* element there ever is).
RefValid(s, kind, user_id) ==
    /\ IsObjectIdStr(s)
    /\ \E e \in InitElements : e.kind = kind /\ e.id = ObjectId(s) /\ e.user_id = user_id
HasInvalidRef(rec) ==
    \E kd \in Kinds :
        /\ rec.ids[kd].some
        /\ \E i \in DOMAIN rec.ids[kd].val : ~RefValid(rec.ids[kd].val[i], kd, rec.user)

\* Request r has written nothing to the custom_resumes collection.
WroteNothing(r) ==
    /\ req[r].events \cap {"meta_write", "final_write"} = {}
    /\ \A n \in DOMAIN meta_writer : meta_writer[n] # r
    /\ \A n \in DOMAIN final_writes : r \notin SeqToSet(final_writes[n])
    /\ \A d \in custom_resumes : d.id # NewResumeId(r)

\* C1: a create or update whose body holds, in any of the eight lists, an
\* identifier that is malformed, nonexistent or another user's fails (400 for
\* a malformed one, 404 otherwise, naming the kind) and performs no insert and
\* no update on the custom_resumes collection.
C1_InvalidRefNoWrite ==
    \A r \in Reqs :
        (req[r].op \in {"create", "update"} /\ HasInvalidRef(req[r]))
        => /\ WroteNothing(r)
           /\ req[r].pc \in {"v_query", "done"}
           /\ req[r].pc = "done" =>
                 /\ req[r].status \in {400, 404}
                 /\ req[r].stage = "validate"
                 /\ "invalid_ref" \in req[r].events
                 /\ req[r].detail.kind = KindOrder[req[r].k]

\* A create whose education list was valid and whose award list names a
\* nonexistent id has answered 404 for the awards, and stored no document.
C1_Witness ==
    \E r \in Reqs :
        /\ req[r].op = "create"
        /\ req[r].pc = "done"
        /\ req[r].status = 404
        /\ req[r].detail.kind = "award"
        /\ req[r].ids["education"].val = << <<"e", 1>> >>
        /\ WroteNothing(r)

\* C3: at the step in which a create or update writes reference lists to a
\* custom-resume document, every identifier it writes is the id of an element
\* of the matching kind that exists and is owned by the requester.
C3_WrittenRefsResolveAtWrite ==
    [][\A r \in Reqs :
          ("meta_write" \notin req[r].events /\ "meta_write" \in req'[r].events)
          => \A kd \in Kinds :
                req[r].update_ids[kd].some
                => \A i \in DOMAIN req[r].update_ids[kd].val :
                      \E e \in elements :
                          /\ e.kind = kd
                          /\ e.id = req[r].update_ids[kd].val[i]
                          /\ e.user_id = req[r].user]_vars

\* The failures of a pipeline run that end it with an error.
FatalEvents ==
    {"render_fail", "compile_fail", "upload_latex_fail", "upload_pdf_fail", "update_fail"}

\* The document the request addresses (the one it inserted, for a create).
DocOf(rec) == {d \in custom_resumes : d.id = rec.resume_object_id}

\* C4: a create or update that persisted its metadata and then failed fatally
\* (render, compile, markup or PDF upload, final record update) answers 500
\* and nothing is rolled back: unless another request wrote the same document
\* since, the document exists with the requested name and the validated lists
\* (an update: the name and the lists its body held).
C4_NoRollbackOfMetadata ==
    \A r \in Reqs :
        LET rec == req[r]
        IN  (rec.pc = "done" /\ "meta_write" \in rec.events
                /\ rec.events \cap FatalEvents # {}
                /\ meta_writer[ResumeIndex(rec.resume_object_id)] = r)
            => /\ rec.status = 500
               /\ DocOf(rec) # {}
               /\ \A d \in DocOf(rec) :
                     /\ d.user_id = rec.user
                     /\ rec.name.some => d.name = rec.name.val
                     /\ \A kd \in Kinds :
                           rec.ids[kd].some
                           => d.ids[kd] = [i \in DOMAIN rec.ids[kd].val |->
                                              ObjectId(rec.ids[kd].val[i])]

\* An update with a new name and a new award list has failed in compilation;
\* the document holds the new name and the new list.
C4_Witness ==
    \E r \in Reqs :
        /\ req[r].op = "update"
        /\ req[r].pc = "done"
        /\ req[r].status = 500
        /\ "compile_fail" \in req[r].events
        /\ req[r].name = Some("cv2")
        /\ req[r].ids["award"] = Some(<< <<"a", 3>> >>)
        /\ \E d \in DocOf(req[r]) :
              d.name = "cv2" /\ d.ids["award"] = <<ObjectId(<<"a", 3>>)>>

\* The paths of the temporary directory of request r and of the files in it.
TempPaths(r) == {p \in fs : p.dir = r}

SixFields(x) ==
    <<x.latex_url, x.latex_public_id, x.cloudinary_url, x.cloudinary_public_id,
      x.thumbnail_url, x.thumbnail_public_id>>

\* C6: the artifact fields are written, and the PDF returned, only by a run
\* whose markup upload and PDF upload both succeeded; a run in which either
\* failed answers 500 and writes no artifact field.  Every document has
\* latex_url set iff cloudinary_url is set, and thumbnail_url only with both.
C6_NoPartialArtifacts ==
    /\ \A d \in custom_resumes :
          /\ (d.latex_url # Null) <=> (d.cloudinary_url # Null)
          /\ (d.latex_public_id # Null) <=> (d.latex_url # Null)
          /\ (d.cloudinary_public_id # Null) <=> (d.cloudinary_url # Null)
          /\ d.thumbnail_url # Null => (d.latex_url # Null /\ d.cloudinary_url # Null)
    /\ \A r \in Reqs :
          /\ ("final_write" \in req[r].events \/ req[r].pending_status = 200)
             => /\ PublicId("latex", r) \in cloud
                /\ PublicId("pdf", r) \in cloud
                /\ req[r].events \cap {"upload_latex_fail", "upload_pdf_fail"} = {}
          /\ (req[r].pc = "done"
                 /\ req[r].events \cap {"upload_latex_fail", "upload_pdf_fail"} # {})
             => /\ req[r].status = 500
                /\ "final_write" \notin req[r].events
                /\ \A n \in DOMAIN final_writes : r \notin SeqToSet(final_writes[n])

\* A create whose markup was uploaded and whose PDF upload failed has answered
\* 500; its document has no artifact field set.
C6_Witness ==
    \E r \in Reqs :
        /\ req[r].op = "create"
        /\ req[r].pc = "done"
        /\ "upload_pdf_fail" \in req[r].events
        /\ PublicId("latex", r) \in cloud
        /\ \E d \in DocOf(req[r]) : SixFields(d) = <<Null, Null, Null, Null, Null, Null>>

ThumbnailEvents == {"raster_fail", "upload_thumb_fail"}

\* A finished run that met a thumbnail failure and no fatal one succeeded
\* without a thumbnail.
ThumbnailFailureIsNotFatal(r) ==
    (req[r].pc = "done" /\ req[r].events \cap ThumbnailEvents # {}
        /\ req[r].events \cap FatalEvents = {})
    => /\ req[r].status = 200
       /\ "final_write" \in req[r].events
       /\ PublicId("latex", r) \in cloud
       /\ PublicId("pdf", r) \in cloud
       /\ req[r].thumbnail_url = Null
       /\ req[r].thumbnail_public_id = Null
       /\ \A d \in DocOf(req[r]) :
             /\ d.thumbnail_url = Null
             /\ d.thumbnail_public_id = Null
             /\ d.latex_url = Url("latex", r)
             /\ d.cloudinary_url = Url("pdf", r)

NoUploadNoFinalWrite(r) ==
    /\ {PublicId(w, r) : w \in {"latex", "pdf", "thumbnail"}} \cap cloud = {}
    /\ "final_write" \notin req[r].events
    /\ \A n \in DOMAIN final_writes : r \notin SeqToSet(final_writes[n])

\* C8: when pdflatex exits with status 0 and has written no PDF, compile_latex
\* raises nothing: it returns None (for a non-zero status it raises
\* RuntimeError).  The pipeline ends both cases alike: a 500 from the compile
\* step, nothing uploaded, no artifact field written.
C8_MissingPdfReturnsNoneRunFails ==
    \A r \in Reqs :
        /\ req[r].pc = "compiling"
           => \A out \in CompilerOutcomes :
                 /\ (out.installed /\ out.returncode = 0 /\ ~out.pdf)
                    => compile_latex(fs, r, out).result = "None"
                 /\ (out.installed /\ out.returncode # 0)
                    => compile_latex(fs, r, out).result = "RuntimeError"
        /\ req[r].compiled \in {"None", "RuntimeError"}
           => /\ req[r].pc \in {"cleanup", "done"}
              /\ req[r].pending_status = 500
              /\ req[r].pc = "done" => req[r].status = 500
              /\ req[r].stage = "compile"
              /\ NoUploadNoFinalWrite(r)

\* C8 as stated: for exit status 0 without a PDF compile_latex raises, as it
\* does for a non-zero status.
C8_MissingPdfRaises ==
    \A r \in Reqs :
        req[r].pc = "compiling"
        => \A out \in CompilerOutcomes :
              (out.installed /\ out.returncode = 0 /\ ~out.pdf)
              => compile_latex(fs, r, out).result = "RuntimeError"

\* A run in which compile_latex returned None has answered 500.
C8_Witness ==
    \E r \in Reqs :
        /\ req[r].pc = "done"
        /\ req[r].compiled = "None"
        /\ req[r].status = 500
        /\ NoUploadNoFinalWrite(r)

\* C9: the artifact fields of a document are those of the run that performed
\* its final record update last: right after a run's update the document
\* holds exactly the run's six values, and at any time it holds the values of
\* the last writer in the order of the writes, also when two runs on the same
\* document interleave.
C9_LastFinalWriteWins ==
    /\ \A d \in custom_resumes :
          LET h == final_writes[ResumeIndex(d.id)]
              w == h[Len(h)]
          IN  h # <<>>
              => /\ d.latex_url = Url("latex", w)
                 /\ d.latex_public_id = PublicId("latex", w)
                 /\ d.cloudinary_url = Url("pdf", w)
                 /\ d.cloudinary_public_id = PublicId("pdf", w)
                 /\ \/ /\ d.thumbnail_url = Url("thumbnail", w)
                       /\ d.thumbnail_public_id = PublicId("thumbnail", w)
                    \/ /\ d.thumbnail_url = Null
                       /\ d.thumbnail_public_id = Null
    /\ \A r \in Reqs :
          (req[r].pc \in {"cleanup", "done"} /\ "final_write" \in req[r].events)
          => \A d \in DocOf(req[r]) : SixFields(d) = SixFields(req[r])

\* Two runs on the stored resume interleaved: request 2 started after request
\* 1 and updated the record first; request 1 updated it last and has just
\* returned; the document holds the fields of request 1.
C9_Witness ==
    /\ final_writes[0] = <<2, 1>>
    /\ req[1].pc = "done"
    /\ req[1].status = 200
    /\ req[2].pc = "closed"
    /\ \E d \in custom_resumes :
          d.id = NewResumeId(0) /\ SixFields(d) = SixFields(req[1])

\* Request q is waiting to be served: suspended in an await on the store, or
\* the next request to arrive.
Waiting(q) ==
    \/ req[q].pc \in AwaitLabels
    \/ req[q].pc = "idle" /\ \A p \in Reqs : p < q => req[p].pc # "idle"

\* C10: while the compile step or the rasterize step of one request is in
\* progress, every other request that waits to be served can take a step.
C10_OthersProgressDuringCompile ==
    \A r \in Reqs : \A q \in Reqs \ {r} :
        (req[r].pc \in {"compiling", "rasterize"} /\ Waiting(q)) => ENABLED Step(q)

\* The six values run r produces: the pairs its uploads returned, the
\* thumbnail pair null when rasterization or the thumbnail upload failed.
ProducedBy(r, events) ==
    <<Url("latex", r), PublicId("latex", r), Url("pdf", r), PublicId("pdf", r),
      IF events \cap ThumbnailEvents = {} THEN Url("thumbnail", r) ELSE Null,
      IF events \cap ThumbnailEvents = {} THEN PublicId("thumbnail", r) ELSE Null>>

\* C13: the final record update of a successful run leaves the record with
\* exactly the six values this run produced, whatever it held before; a run
\* without a thumbnail leaves both thumbnail fields null.
C13_FinalUpdateOverwritesAllSix ==
    [][\A r \in Reqs :
          ("final_write" \notin req[r].events /\ "final_write" \in req'[r].events)
          => \A d \in custom_resumes' :
                d.id = req[r].resume_object_id
                => SixFields(d) = ProducedBy(r, req[r].events)]_vars

\* A run on the stored resume, which held a thumbnail of an earlier run, has
\* succeeded without a thumbnail: both thumbnail fields of the record are null
\* and the other four are this run's.
C13_Witness ==
    \E r \in Reqs :
        /\ req[r].pc = "done"
        /\ req[r].status = 200
        /\ req[r].events \cap ThumbnailEvents # {}
        /\ req[r].resume_object_id = SeedResume.id
        /\ SeedResume.thumbnail_url # Null
        /\ \E d \in custom_resumes :
              /\ d.id = SeedResume.id
              /\ d.thumbnail_url = Null
              /\ d.thumbnail_public_id = Null
              /\ d.latex_url = Url("latex", r)
              /\ d.cloudinary_public_id = PublicId("pdf", r)

\* The list of the request body as the object ids the handler writes.
BodyList(rec, kd) ==
    [i \in DOMAIN rec.ids[kd].val |-> ObjectId(rec.ids[kd].val[i])]

\* Document d after an update with the body of rec: the name and the lists
\* the body holds are replaced, everything else is as in d.
AfterUpdate(rec, d) ==
    [d EXCEPT !.name = IF rec.name.some THEN rec.name.val ELSE @,
              !.ids = [kd \in Kinds |->
                         IF rec.ids[kd].some THEN BodyList(rec, kd) ELSE @[kd]]]

\* Requests r and q are updates of the same record that both have written.
BothUpdated(r, q) ==
    /\ r # q
    /\ req[r].op = "update" /\ req[q].op = "update"
    /\ req[r].resume_object_id = req[q].resume_object_id
    /\ "meta_write" \in req[r].events /\ "meta_write" \in req[q].events

\* C14: the write of update_custom_resume replaces the name and the lists
\* present in the request body and nothing else, in the addressed record only;
\* and once two updates of the same record have both written, a list (or the
\* name) that only one of them holds has that update's value, whichever wrote
\* first.
C14_UpdateReplacesExactlyWhatIsPresent ==
    /\ [][\A r \in Reqs :
            (req[r].op = "update"
                /\ "meta_write" \notin req[r].events /\ "meta_write" \in req'[r].events)
            => custom_resumes' =
                  {IF d.id = req[r].resume_object_id THEN AfterUpdate(req[r], d) ELSE d
                      : d \in custom_resumes}]_vars
    /\ [](\A r \in Reqs : \A q \in Reqs :
            BothUpdated(r, q)
            => \A d \in DocOf(req[r]) :
                  /\ (req[r].name.some /\ ~req[q].name.some) => d.name = req[r].name.val
                  /\ \A kd \in Kinds :
                        (req[r].ids[kd].some /\ ~req[q].ids[kd].some)
                        => d.ids[kd] = BodyList(req[r], kd))

\* Two updates of the stored resume have both written: one held only an empty
\* education list, the other only the award list and the name.  The record has
\* the empty education list of the one and the award list and name of the
\* other; the update of the award list wrote first.
C14_Witness ==
    /\ BothUpdated(1, 2)
    /\ meta_writer[0] = 1
    /\ req[1].ids["education"] = Some(<<>>) /\ ~req[1].ids["award"].some
    /\ ~req[1].name.some
    /\ req[2].ids["award"] = Some(<< <<"a", 3>> >>) /\ ~req[2].ids["education"].some
    /\ req[2].name = Some("cv2")
    /\ \E d \in custom_resumes :
          /\ d.id = SeedResume.id
          /\ d.name = "cv2"
          /\ d.ids["education"] = <<>>
          /\ d.ids["award"] = <<ObjectId(<<"a", 3>>)>>
          /\ SixFields(d) = SixFields(SeedResume)

\* C17: no user ever owns more custom resumes than the user's max_resume.
C17_ResumeCountWithinLimit ==
    \A u \in Users :
        Cardinality({d \in custom_resumes : d.user_id = u}) <= get_user_max_resume(u)

\* Request r is a get, update, delete or generate-pdf on a stored resume that
\* belongs to another user.
OnForeignResume(r) ==
    /\ req[r].op \in {"get", "update", "delete_resume", "generate"}
    /\ \E d \in custom_resumes :
          d.id = req[r].resume_object_id /\ d.user_id # req[r].user

NextSteps(pc) ==
    CASE pc = "c_insert" -> {"p_query", "find_user"}
      [] pc = "u_update" -> {"u_refetch"}
      [] pc = "u_refetch" -> {"p_query", "find_user"}
      [] pc = "g_find" -> {"p_query", "find_user"}
      [] pc = "p_query" -> {"p_query", "find_user"}
      [] pc = "find_user" -> {"render"}
      [] pc = "render" -> {"mkdtemp"}
      [] pc = "mkdtemp" -> {"compiling"}
      [] pc = "compiling" -> {"rasterize"}
      [] pc = "rasterize" -> {"upload_latex"}
      [] pc = "upload_latex" -> {"upload_pdf"}
      [] pc = "upload_pdf" -> {"upload_thumb", "update_record"}
      [] pc = "upload_thumb" -> {"update_record"}
      [] pc = "update_record" -> {"cleanup"}
      [] pc = "cleanup" -> {"done"}
      [] OTHER -> {}

\* The request is leaving the run with an error.
Failing(rec) ==
    \/ rec.pc = "cleanup" /\ rec.pending_status # 200
    \/ rec.pc = "done" /\ rec.status # 200

\* C19: a create, update or generate-pdf moves through persist, populate,
\* render, compile, rasterize, markup upload, PDF upload, thumbnail upload,
\* record update and return in this order: from each position it either goes
\* to the next one or leaves with an error, and it goes on only with no fatal
\* failure behind it.  An upload happens only with a compiled PDF at hand, and
\* the artifact fields are written only with both mandatory uploads done.
C19_PipelineStepsInOrder ==
    [][\A r \in Reqs :
          (req[r].op \in {"create", "update", "generate"}
              /\ NextSteps(req[r].pc) # {} /\ req'[r] # req[r])
          => /\ \/ req'[r].pc \in NextSteps(req[r].pc)
                \/ Failing(req'[r])
             /\ ~Failing(req'[r]) => req'[r].events \cap FatalEvents = {}
             /\ cloud' # cloud
                   => /\ req[r].pc \in {"upload_latex", "upload_pdf", "upload_thumb"}
                      /\ req[r].compiled = "path"
                      /\ OutPdf(r) \in fs
             /\ "final_write" \in req'[r].events
                   => /\ {PublicId("latex", r), PublicId("pdf", r)} \subseteq cloud
                      /\ req[r].pc \in {"update_record", "cleanup"}
             /\ \A d \in custom_resumes : \A x \in custom_resumes' :
                   (d.id = x.id /\ SixFields(d) # SixFields(x))
                   => req[r].pc = "update_record"]_vars

\* A create with an education element went through every step, the
\* thumbnail upload included, and has answered 200.
C19_Witness ==
    \E r \in Reqs :
        /\ req[r].op = "create"
        /\ req[r].pc = "done"
        /\ req[r].status = 200
        /\ req[r].populated["education"] # {}
        /\ req[r].events = {"meta_write", "tmp_created", "final_write"}
        /\ {PublicId("latex", r), PublicId("pdf", r), PublicId("thumbnail", r)}
              \subseteq cloud
        /\ TempPaths(r) = {}

\* The artifact values a run of request r can produce.
ValuesOf(r) ==
    {Url(w, r) : w \in {"latex", "pdf", "thumbnail"}}
        \cup {PublicId(w, r) : w \in {"latex", "pdf", "thumbnail"}}

C21_MalformedTemplateIsFatal ==
    \A r \in Reqs :
        "marker_missing" \in req[r].events
        => /\ req[r].pc = "done"
           /\ req[r].status = 500
           /\ req[r].stage = "render"
           /\ req[r].detail = Detail("Failed to generate LaTeX")
           /\ "render_fail" \in req[r].events
           /\ {"tmp_created", "final_write"} \cap req[r].events = {}
           /\ req[r].compiled = ""
           /\ TempPaths(r) = {}
           /\ ValuesOf(r) \cap cloud = {}
           /\ \A n \in DOMAIN final_writes :
                 \A i \in DOMAIN final_writes[n] : final_writes[n][i] # r

\* A generate-pdf on the stored resume met a template without a marker: 500,
\* and the record has the artifact values it had.
C21_Witness ==
    \E r \in Reqs :
        /\ req[r].op = "generate"
        /\ req[r].pc = "done"
        /\ "marker_missing" \in req[r].events
        /\ req[r].status = 500
        /\ req[r].resume_object_id = SeedResume.id
        /\ \E d \in custom_resumes :
              d.id = SeedResume.id /\ SixFields(d) = SixFields(SeedResume)

\* The elements of `kind` in the store that the list `ids` of a resume of
\* `user_id` names.
StoredOf(kind, ids, user_id) ==
    {e \in elements : e.kind = kind /\ e.user_id = user_id /\ e.id \in SeqToSet(ids)}

\* C30: a get or generate-pdf request on a resume whose list names an element
\* that is no longer stored goes on past populate_references: the populated
\* list holds exactly the named elements still stored, a get answers 200, the
\* rendered document has a section only for a non-empty populated list, and
\* neither the element's deletion nor the two requests change the record (its
\* name and its eight lists).
C30_DanglingReferenceIsOmitted ==
    [][\A r \in Reqs :
          /\ (req[r].pc = "p_query" /\ req'[r] # req[r])
                => LET kind == KindOrder[req[r].k]
                   IN  /\ req'[r].populated[kind]
                             = StoredOf(kind, req[r].doc_ids[kind], req[r].user)
                       /\ \/ req'[r].pc \in {"p_query", "find_user"}
                          \/ /\ req[r].op = "get"
                             /\ req'[r].pc = "done"
                             /\ req'[r].status = 200
          /\ (req[r].pc = "render" /\ req'[r].pc = "mkdtemp")
                => \A kd \in Kinds \ {"heading"} :
                      (\E i \in DOMAIN req'[r].sections : req'[r].sections[i] = kd)
                          <=> req[r].populated[kd] # {}
          /\ (req[r].op \in {"get", "generate", "delete_element"} /\ req'[r] # req[r])
                => /\ {d.id : d \in custom_resumes'} = {d.id : d \in custom_resumes}
                   /\ \A d \in custom_resumes : \A e \in custom_resumes' :
                         d.id = e.id => d.name = e.name /\ d.ids = e.ids]_vars

\* The education the stored resume names was deleted; a later generate-pdf
\* request answered 200 with an empty populated education list and a document
\* of the heading alone, and the record still names the deleted education.
C30_Witness ==
    \E r \in Reqs :
        /\ req[r].op = "generate"
        /\ req[r].pc = "done"
        /\ req[r].status = 200
        /\ req[r].doc_ids["education"] = <<ObjectId(<<"e", 1>>)>>
        /\ req[r].populated["education"] = {}
        /\ req[r].sections = <<"heading">>
        /\ \A e \in elements : e.id # ObjectId(<<"e", 1>>)
        /\ \E d \in custom_resumes :
              /\ d.id = SeedResume.id
              /\ d.ids["education"] = <<ObjectId(<<"e", 1>>)>>

\* What the document's lists resolve to for its owner, kind by kind.
Resolved(d) ==
    [kd \in Kinds |-> Find(kd, d.ids[kd], d.user_id)]

\* C11: the step in which delete_custom_resume deletes removes the addressed
\* document, which belongs to the requester, and nothing else: the elements of
\* all kinds and the artifact store are unchanged, every other document stays
\* as it was and its lists resolve to the same elements as before.
C11_DeleteRemovesOnlyTheRecord ==
    [][\A r \in Reqs :
          ("resume_delete" \notin req[r].events /\ "resume_delete" \in req'[r].events)
          => /\ elements' = elements
             /\ cloud' = cloud
             /\ custom_resumes' =
                    custom_resumes \ {d \in custom_resumes :
                                         /\ d.id = req[r].resume_object_id
                                         /\ d.user_id = req[r].user}
             /\ \A d \in custom_resumes' : Resolved(d)' = Resolved(d)]_vars

\* A resume was deleted while another resume of the same user lists the same
\* education element; that resume and the element are still there.
C11_Witness ==
    \E r \in Reqs :
        /\ req[r].pc = "done"
        /\ "resume_delete" \in req[r].events
        /\ req[r].status = 204
        /\ DocOf(req[r]) = {}
        /\ \E d \in custom_resumes :
              /\ d.user_id = req[r].user
              /\ d.ids["education"] = SeedResume.ids["education"]
              /\ Resolved(d)["education"] # {}

\* The request is past the persistence of the metadata: a create or update
\* has run its insert_one / update_one, a generate-pdf has found the record.
PastPersistence(rec) ==
    \/ rec.op \in {"create", "update"} /\ "meta_write" \in rec.events
    \/ rec.op = "generate" /\ rec.stage \notin {"", "parse", "find"}

\* C12: every create, update or generate-pdf that fails after the metadata
\* was persisted answers with a 500 raised by the handler with its own
\* message, never with a 4xx and never by an exception nobody handles.
C12_FailureAfterPersistenceIsHandled500 ==
    \A r \in Reqs :
        LET rec == req[r]
        IN  (rec.pc = "done" /\ PastPersistence(rec) /\ rec.status # 200)
            => /\ rec.status = 500
               /\ rec.stage # "unhandled"
               /\ rec.detail # Detail("Internal Server Error")

\* ------------------------------------- validate_referenced_ids on its own
\* One call of validate_referenced_ids against a store of elements: the
\* documents of InitElements and a second education of u1, any of them
\* possibly deleted already.
CallElements ==
    InitElements \cup
        {[kind |-> "education", id |-> ObjectId(<<"e", 5>>), user_id |-> "u1"]}
CallIdStrs(kind) ==
    {StrOfObjectId(e.id) : e \in {x \in CallElements : x.kind = kind}}
        \cup MissingIdStrs \cup MalformedIdStrs
CallIdLists(kind) == UNION {[1 .. n -> CallIdStrs(kind)] : n \in 0 .. MaxCallLen}

InitValidate ==
    /\ elements \in SUBSET CallElements
    /\ custom_resumes = {}
    /\ cloud = {}
    /\ fs = {}
    /\ req = [r \in Reqs |-> IdleReq]
    /\ running = 0
    /\ meta_writer = [n \in 0 .. MaxRequests |-> 0]
    /\ final_writes = [n \in 0 .. MaxRequests |-> <<>>]
    /\ \E kind \in ListedKinds, user_id \in Users :
         \E ids \in CallIdLists(kind) :
            call = [NoCall EXCEPT !.fn = "validate_referenced_ids", !.ids = ids,
                                  !.kind = kind, !.user_id = user_id]

ValidateCall ==
    /\ call.fn = "validate_referenced_ids"
    /\ ~call.returned
    /\ call' = [call EXCEPT !.returned = TRUE,
                            !.out = validate_referenced_ids(call.ids, call.kind,
                                                            call.user_id)]
    /\ UNCHANGED <<elements, custom_resumes, cloud, fs, req, running,
                   meta_writer, final_writes>>

SpecValidate == InitValidate /\ [][ValidateCall]_vars

\* The ids of the elements of `kind` that `user_id` owns in the store.
OwnedIds(kind, user_id) ==
    {e.id : e \in {x \in elements : x.kind = kind /\ x.user_id = user_id}}

\* C2: validate_referenced_ids on a list of well-formed ids fails (404) exactly
\* when some requested id is not the id of an element of the collection owned
\* by the user; the error names exactly the requested ids that are missing or
\* foreign; on success it returns all requested ids, in request order.
C2_ValidateNamesExactlyMissing ==
    (call.fn = "validate_referenced_ids" /\ call.returned
        /\ \A i \in DOMAIN call.ids : IsObjectIdStr(call.ids[i]))
    => LET requested == {call.ids[i] : i \in DOMAIN call.ids}
           absent == {s \in requested :
                        ObjectId(s) \notin OwnedIds(call.kind, call.user_id)}
       IN  /\ call.out.status \in {200, 404}
           /\ (call.out.status = 404) <=> (absent # {})
           /\ call.out.status = 404 => call.out.named = absent
           /\ call.out.status = 200 =>
                 /\ Len(call.out.result) = Len(call.ids)
                 /\ \A i \in DOMAIN call.ids :
                        call.out.result[i] = ObjectId(call.ids[i])

\* Ids {A, B, C} with C of another user: the call failed naming exactly {C}.
C2_Witness ==
    /\ call.returned
    /\ call.user_id = "u1"
    /\ call.ids = << <<"e", 1>>, <<"e", 5>>, <<"e", 2>> >>
    /\ CallElements \subseteq elements
    /\ call.out.status = 404
    /\ call.out.named = { <<"e", 2>> }

\* C26: a list holding an identifier that does not parse is rejected with 400,
\* naming the first such identifier, without a query of the store, whatever
\* the other identifiers of the list are (missing and foreign ones included);
\* an empty list is accepted, with an empty result, without a query; a
\* non-empty list of well-formed identifiers is queried.
C26_MalformedRejectedBeforeQuery ==
    (call.fn = "validate_referenced_ids" /\ call.returned)
    => LET malformed == {i \in DOMAIN call.ids : ~IsObjectIdStr(call.ids[i])}
       IN  /\ malformed # {}
                => /\ call.out.status = 400
                   /\ ~call.out.queried
                   /\ \E i \in malformed :
                         /\ call.out.named = {call.ids[i]}
                         /\ \A j \in malformed : i <= j
           /\ call.ids = <<>>
                => /\ call.out.status = 200
                   /\ call.out.result = <<>>
                   /\ ~call.out.queried
           /\ (call.ids # <<>> /\ malformed = {})
                => /\ call.out.queried
                   /\ call.out.status # 400

\* A list of u1 holding the id of an element of u2, an id of no element and
\* then a malformed id was rejected with 400 and no query.
C26_Witness ==
    /\ call.fn = "validate_referenced_ids"
    /\ call.returned
    /\ call.user_id = "u1"
    /\ call.kind = "education"
    /\ call.ids = << <<"e", 2>>, <<"m", 4>>, <<"zz", 0>> >>
    /\ CallElements \subseteq elements
    /\ call.out.status = 400
    /\ ~call.out.queried

\* ------------------------- populate_references and the renderer on their own
\* Two pipeline runs, one after the other, on one unchanged custom-resume
\* document: populate_references reads the referenced elements, then
\* generate_latex_from_resume builds the markup.  The document's lists are
\* arbitrary (ids of other users' elements included), the store holds
\* RenderElements throughout and the template is the same in both runs.
MaxRefs == 2

RenderElements ==
    CallElements \cup
        {[kind |-> "heading", id |-> ObjectId(<<"h", 6>>), user_id |-> "u1"]}

RefLists(kind) ==
    UNION {[1 .. n -> {e.id : e \in {x \in RenderElements : x.kind = kind}}]
              : n \in 0 .. MaxRefs}

\* The orders of the documents of the store a cursor may follow.
CursorOrders ==
    {f \in [1 .. Cardinality(elements) -> elements] :
        \A i \in DOMAIN f : \A j \in DOMAIN f : f[i] = f[j] => i = j}

\* find({"_id": {"$in": ids}, "user_id": user_id}) and to_list: the matching
\* documents, each once, in the order the cursor yields them.
FindToList(kind, ids, user_id, order) ==
    LET match(e) == /\ e.kind = kind
                    /\ e.user_id = user_id
                    /\ \E i \in DOMAIN ids : ids[i] = e.id
    IN  SelectSeq(order, match)

\* populate_references: a kind whose id list is empty is not queried; the
\* response objects are built in cursor order.
populate_references(resume_doc, user_id, order) ==
    [kd \in Kinds |->
        IF resume_doc[kd] = <<>>
        THEN <<>>
        ELSE FindToList(kd, resume_doc[kd], user_id, order)]

EmptyFragment == [section |-> "", items |-> <<>>]

\* A heading renderer that returns the empty string when there is no heading.
generate_heading_section_or_nothing(headings, user) ==
    IF headings = <<>>
    THEN EmptyFragment
    ELSE [section |-> "heading", items |-> <<user, headings[1].id>>]

\* generate_heading_section: the user's name and e-mail, and the mobile
\* number and links of the first heading if there is one.
generate_heading_section(headings, user) ==
    [section |-> "heading",
     items |-> IF headings = <<>> THEN <<user>> ELSE <<user, headings[1].id>>]

\* generate_education_section and its six siblings: the empty string for an
\* empty list, else the section title followed by one entry per element in
\* list order (an element's entry stands for the text made from its fields).
generate_section(kind, list) ==
    IF list = <<>>
    THEN EmptyFragment
    ELSE [section |-> kind, items |-> [i \in DOMAIN list |-> list[i].id]]

RECURSIVE SectionsFrom(_, _)
SectionsFrom(populated, j) ==
    IF j > Len(SectionOrder)
    THEN <<>>
    ELSE (IF populated[SectionOrder[j]] # <<>>
          THEN <<generate_section(SectionOrder[j], populated[SectionOrder[j]])>>
          ELSE <<>>)
         \o SectionsFrom(populated, j + 1)

\* A renderer that appends every section fragment, empty or not.
generate_latex_from_resume_all_sections(populated, user) ==
    <<"header", "begin{document}">>
    \o <<generate_heading_section(populated["heading"], user)>>
    \o [j \in 1 .. Len(SectionOrder) |->
            generate_section(SectionOrder[j], populated[SectionOrder[j]])]
    \o <<"end{document}">>

\* generate_latex_from_resume: template header, the heading section always,
\* each further section only for a non-empty list, the closing line.
generate_latex_from_resume(populated, user) ==
    <<"header", "begin{document}">>
    \o <<generate_heading_section(populated["heading"], user)>>
    \o SectionsFrom(populated, 1)
    \o <<"end{document}">>

NoDocLists == [kd \in Kinds |-> <<>>]

InitRender ==
    /\ elements = RenderElements
    /\ custom_resumes = {}
    /\ cloud = {}
    /\ fs = {}
    /\ req = [r \in Reqs |-> IdleReq]
    /\ running = 0
    /\ meta_writer = [n \in 0 .. MaxRequests |-> 0]
    /\ final_writes = [n \in 0 .. MaxRequests |-> <<>>]
    /\ \E user_id \in Users, h \in RefLists("heading"), e \in RefLists("education"),
          a \in RefLists("award") :
         call = [fn |-> "pipeline", user_id |-> user_id,
                 resume_doc |-> [NoDocLists EXCEPT !["heading"] = h,
                                                   !["education"] = e,
                                                   !["award"] = a],
                 stage |-> "populate", populated |-> <<>>, markup |-> <<>>]

\* populated = await populate_references(resume_doc, user_id)
PopulateCall ==
    /\ call.fn = "pipeline"
    /\ call.stage = "populate"
    /\ \E order \in CursorOrders :
         call' = [call EXCEPT
                    !.populated = Append(@, populate_references(call.resume_doc,
                                                                call.user_id, order)),
                    !.stage = "render"]
    /\ UNCHANGED <<elements, custom_resumes, cloud, fs, req, running,
                   meta_writer, final_writes>>

\* latex_content = generate_latex_from_resume(resume_data, user_data); after
\* the first run the second one starts.
RenderCall ==
    /\ call.fn = "pipeline"
    /\ call.stage = "render"
    /\ call' = [call EXCEPT
                  !.markup = Append(@, generate_latex_from_resume(
                                          call.populated[Len(call.populated)],
                                          call.user_id)),
                  !.stage = IF Len(call.markup) = 0 THEN "populate" ELSE "end"]
    /\ UNCHANGED <<elements, custom_resumes, cloud, fs, req, running,
                   meta_writer, final_writes>>

SpecRender == InitRender /\ [][PopulateCall \/ RenderCall]_vars

\* populate_references hands back only elements of the requesting user, also
\* for a document whose lists hold ids of another user's elements.
PopulateReturnsOnlyOwn ==
    call.fn = "pipeline"
    => \A n \in DOMAIN call.populated : \A kd \in Kinds :
          \A i \in DOMAIN call.populated[n][kd] :
              call.populated[n][kd][i].user_id = call.user_id

\* C15: two runs on the unchanged document produce the same markup.
C15_RerunGivesIdenticalMarkup ==
    (call.fn = "pipeline" /\ call.stage = "end") => call.markup[1] = call.markup[2]

\* The section fragments of a rendered document, between the two opening
\* lines and the closing line.
Body(markup) == SubSeq(markup, 3, Len(markup) - 1)

\* C16: the rendered document holds the section of a kind exactly when the
\* populated list of that kind is non-empty; it starts with the heading
\* section and holds no empty fragment and no section without entries.
C16_SectionIffListNonEmpty ==
    call.fn = "pipeline"
    => \A n \in DOMAIN call.markup :
          LET body == Body(call.markup[n])
              populated == call.populated[n]
          IN  /\ body[1].section = "heading"
              /\ \A j \in DOMAIN body :
                    body[j] # EmptyFragment /\ body[j].items # <<>>
              /\ \A i \in DOMAIN SectionOrder :
                    (\E j \in DOMAIN body : body[j].section = SectionOrder[i])
                    <=> populated[SectionOrder[i]] # <<>>

\* A resume of u1 that lists two education elements and nothing else was
\* rendered: heading and Education, no other section.
C16_Witness ==
    /\ call.fn = "pipeline"
    /\ call.user_id = "u1"
    /\ call.resume_doc = [NoDocLists EXCEPT !["education"] =
                             <<ObjectId(<<"e", 1>>), ObjectId(<<"e", 5>>)>>]
    /\ Len(call.markup) = 1
    /\ Len(Body(call.markup[1])) = 2
    /\ Body(call.markup[1])[2].section = "education"
    /\ Len(Body(call.markup[1])[2].items) = 2

\* -------------------------------------------------- composition on its own
\* One composition of a document from a template and the section fragments
\* of a resume: any template of up to MaxTemplateLen pieces, up to
\* MaxSections different fragments in any order.
MaxTemplateLen == 4
MaxSections == 3

TemplatePieces == {"text", LineBreak, BeginDocument, EndDocument}
Templates == UNION {[1 .. n -> TemplatePieces] : n \in 0 .. MaxTemplateLen}
Fragments == {"fragment_a", "fragment_b", "fragment_c"}
SectionLists ==
    {f \in UNION {[1 .. n -> Fragments] : n \in 1 .. MaxSections} :
        \A i \in DOMAIN f : \A j \in DOMAIN f : f[i] = f[j] => i = j}

InitCompose ==
    /\ elements = {}
    /\ custom_resumes = {}
    /\ cloud = {}
    /\ fs = {}
    /\ req = [r \in Reqs |-> IdleReq]
    /\ running = 0
    /\ meta_writer = [n \in 0 .. MaxRequests |-> 0]
    /\ final_writes = [n \in 0 .. MaxRequests |-> <<>>]
    /\ \E template \in Templates, sections \in SectionLists :
         call = [fn |-> "compose", template |-> template, sections |-> sections,
                 returned |-> FALSE, out |-> [raised |-> "", doc |-> <<>>]]

ComposeCall ==
    /\ call.fn = "compose"
    /\ ~call.returned
    /\ call' = [call EXCEPT !.returned = TRUE,
                            !.out = compose(call.template, call.sections)]
    /\ UNCHANGED <<elements, custom_resumes, cloud, fs, req, running,
                   meta_writer, final_writes>>

SpecCompose == InitCompose /\ [][ComposeCall]_vars

\* A composition has returned a document.
Composed == call.fn = "compose" /\ call.returned /\ call.out.raised = ""

\* Position of the opening marker in the template, and of the first line
\* break at or after it (0: none).
MarkerAt == find(call.template, BeginDocument, 1)
BreakAt == find(call.template, LineBreak, MarkerAt)

\* C22: the composed document is the template before the opening marker, then
\* the marker up to and including the next line break of the template - the
\* marker alone when no line break follows it - then a blank line, the
\* fragments in the given order with a blank line between two of them, a blank
\* line and the closing marker; so each fragment appears once and earlier than
\* every fragment given after it.
C22_ComposedDocument ==
    Composed
    => LET t == call.template
           s == call.sections
           doc == call.out.doc
           k == IF BreakAt = 0 THEN MarkerAt ELSE BreakAt
           at(i) == k + 3 * i
       IN  /\ Len(doc) = k + 3 * Len(s) + 3
           /\ SubSeq(doc, 1, MarkerAt - 1) = SubSeq(t, 1, MarkerAt - 1)
           /\ doc[MarkerAt] = BeginDocument
           /\ SubSeq(doc, MarkerAt, k) = SubSeq(t, MarkerAt, k)
           /\ \A i \in DOMAIN s :
                 /\ doc[at(i) - 2] = LineBreak /\ doc[at(i) - 1] = LineBreak
                 /\ doc[at(i)] = s[i]
           /\ SubSeq(doc, Len(doc) - 2, Len(doc)) = <<LineBreak, LineBreak, EndDocument>>
           /\ \A i \in DOMAIN s : \A j \in DOMAIN s :
                 i < j => find(doc, s[i], k + 1) < find(doc, s[j], k + 1)

\* C22 as stated: the document always holds the opening marker through the
\* end of its line, also when that line is the last one of the template.
C22_MarkerLineAlwaysWhole ==
    Composed
    => LET t == call.template
           e == IF BreakAt = 0 THEN Len(t) ELSE BreakAt
       IN  SubSeq(call.out.doc, MarkerAt, e) = SubSeq(t, MarkerAt, e)

\* A template whose opening marker is on its last line, followed by text and
\* no line break: the document has the marker alone, then fragment_b before
\* fragment_a as given.
C22_Witness ==
    /\ Composed
    /\ call.template = <<EndDocument, LineBreak, BeginDocument, "text">>
    /\ call.sections = <<"fragment_b", "fragment_a">>
    /\ call.out.doc = <<EndDocument, LineBreak, BeginDocument, LineBreak, LineBreak,
                        "fragment_b", LineBreak, LineBreak, "fragment_a",
                        LineBreak, LineBreak, EndDocument>>

\* ------------------------------------- escape_latex and format_date_range
\* Single calls of the two text functions on every text of up to MaxTextLen
\* characters over the ten reserved characters and a letter; a date is such a
\* text of at most one character or the word Present.
MaxTextLen == 2

Characters == {"a", Backslash} \cup {ReservedOrder[k] : k \in DOMAIN ReservedOrder}
Texts == UNION {[1 .. n -> Characters] : n \in 0 .. MaxTextLen}
Present == <<"Present">>
Dates == UNION {[1 .. n -> Characters] : n \in 0 .. (MaxTextLen - 1)} \cup {Present}

InitEscape ==
    /\ elements = {}
    /\ custom_resumes = {}
    /\ cloud = {}
    /\ fs = {}
    /\ req = [r \in Reqs |-> IdleReq]
    /\ running = 0
    /\ meta_writer = [n \in 0 .. MaxRequests |-> 0]
    /\ final_writes = [n \in 0 .. MaxRequests |-> <<>>]
    /\ \/ \E text \in Texts :
            call = [fn |-> "escape_latex", text |-> text, start_date |-> <<>>,
                    end_date |-> <<>>, returned |-> FALSE, out |-> <<>>]
       \/ \E start_date \in Dates, end_date \in Dates :
            call = [fn |-> "format_date_range", text |-> <<>>,
                    start_date |-> start_date, end_date |-> end_date,
                    returned |-> FALSE, out |-> <<>>]

EscapeCall ==
    /\ call.fn = "escape_latex"
    /\ ~call.returned
    /\ call' = [call EXCEPT !.returned = TRUE, !.out = escape_latex(call.text)]
    /\ UNCHANGED <<elements, custom_resumes, cloud, fs, req, running,
                   meta_writer, final_writes>>

DateRangeCall ==
    /\ call.fn = "format_date_range"
    /\ ~call.returned
    /\ call' = [call EXCEPT !.returned = TRUE,
                            !.out = format_date_range(call.start_date, call.end_date)]
    /\ UNCHANGED <<elements, custom_resumes, cloud, fs, req, running,
                   meta_writer, final_writes>>

SpecEscape == InitEscape /\ [][EscapeCall \/ DateRangeCall]_vars

\* The escape sequence the function's table gives for one character.
IsReserved(ch) ==
    ch = Backslash \/ \E k \in DOMAIN ReservedOrder : ch = ReservedOrder[k]
RECURSIVE EachEscapedOnce(_)
EachEscapedOnce(text) ==
    IF text = <<>> THEN <<>>
    ELSE (IF IsReserved(Head(text)) THEN Replacement(Head(text)) ELSE <<Head(text)>>)
         \o EachEscapedOnce(Tail(text))

\* C24: escape_latex returns the input with each reserved character replaced
\* by exactly its escape sequence, nothing that a replacement has introduced
\* being escaped again.
C24_EachReservedEscapedOnce ==
    (call.fn = "escape_latex" /\ call.returned)
    => call.out = EachEscapedOnce(call.text)

\* C25: format_date_range returns the escaped start, the separator of a
\* space, two hyphens and a space, and the escaped end; Present passes through
\* as it is.
C25_DateRangeJoinsWithTwoHyphens ==
    (call.fn = "format_date_range" /\ call.returned)
    => LET a == escape_latex(call.start_date)
           b == escape_latex(call.end_date)
       IN  /\ Len(call.out) = Len(a) + 4 + Len(b)
           /\ SubSeq(call.out, 1, Len(a)) = a
           /\ SubSeq(call.out, Len(a) + 1, Len(a) + 4) = <<" ", "-", "-", " ">>
           /\ SubSeq(call.out, Len(a) + 5, Len(call.out)) = b
           /\ call.end_date = Present
                 => SubSeq(call.out, Len(a) + 5, Len(call.out)) = Present

\* C25 as stated: the separator is a space, an en dash and a space.
C25_DateRangeJoinsWithEnDash ==
    (call.fn = "format_date_range" /\ call.returned)
    => LET a == escape_latex(call.start_date)
       IN  SubSeq(call.out, Len(a) + 1, Len(a) + 3) = <<" ", "endash", " ">>

\* The range from an ampersand to Present.
C25_Witness ==
    /\ call.fn = "format_date_range"
    /\ call.returned
    /\ call.start_date = <<"&">>
    /\ call.end_date = Present
    /\ call.out = <<Backslash, "&", " ", "-", "-", " ", "Present">>

\* ------------------------------------------- the section renderers on their own
\* One call of one of the eight section renderers on a list of up to MaxRefs
\* elements of its kind.
SectionElements(kind) ==
    {[kind |-> kind, id |-> ObjectId(<<"s", n>>), user_id |-> "u1"] : n \in 1 .. 2}
SectionInputs(kind) ==
    UNION {[1 .. n -> SectionElements(kind)] : n \in 0 .. MaxRefs}

\* The renderer of a kind applied to a list.
render_section(kind, list, user) ==
    IF kind = "heading"
    THEN generate_heading_section(list, user)
    ELSE generate_section(kind, list)

InitSections ==
    /\ elements = {}
    /\ custom_resumes = {}
    /\ cloud = {}
    /\ fs = {}
    /\ req = [r \in Reqs |-> IdleReq]
    /\ running = 0
    /\ meta_writer = [n \in 0 .. MaxRequests |-> 0]
    /\ final_writes = [n \in 0 .. MaxRequests |-> <<>>]
    /\ \E kind \in Kinds, user \in Users :
         \E list \in SectionInputs(kind) :
            call = [fn |-> "render_section", kind |-> kind, list |-> list,
                    user |-> user, returned |-> FALSE, out |-> EmptyFragment]

SectionCall ==
    /\ call.fn = "render_section"
    /\ ~call.returned
    /\ call' = [call EXCEPT !.returned = TRUE,
                            !.out = render_section(call.kind, call.list, call.user)]
    /\ UNCHANGED <<elements, custom_resumes, cloud, fs, req, running,
                   meta_writer, final_writes>>

SpecSections == InitSections /\ [][SectionCall]_vars

\* C23: each of the seven renderers from education to volunteer returns the
\* empty string for an empty list and a non-empty string, with an entry per
\* element, for a non-empty list; the heading renderer returns a non-empty
\* string for every list, the empty one included.
C23_SevenRenderersEmptyForEmpty ==
    (call.fn = "render_section" /\ call.returned)
    => /\ call.kind # "heading"
            => /\ (call.out = EmptyFragment) <=> (call.list = <<>>)
               /\ Len(call.out.items) = Len(call.list)
       /\ call.kind = "heading"
            => call.out # EmptyFragment /\ call.out.items # <<>>

\* C23 as stated: all eight renderers return the empty string exactly for the
\* empty list.
C23_AllRenderersEmptyForEmpty ==
    (call.fn = "render_section" /\ call.returned)
    => ((call.out = EmptyFragment) <=> (call.list = <<>>))

\* The heading renderer was called with no heading and returned the section
\* made from the user's name and e-mail.
C23_Witness ==
    /\ call.fn = "render_section"
    /\ call.returned
    /\ call.kind = "heading"
    /\ call.list = <<>>
    /\ call.out = [section |-> "heading", items |-> <<call.user>>]

\* ----------------------------------------------------------- credit_service
\* Calls of deduct_credits and add_credits for one user, each in its own
\* coroutine.  call.credits is the "credits" field of the user's document;
\* call.tasks[t] is the coroutine t: its position, its arguments and the
\* balance it has read.  Every action is the return of one awaited operation
\* of the document store.
MaxTasks == 2
MaxCredits == 7

Tasks == 1 .. MaxTasks
\* CREDIT_COSTS.REPHRASE and CREDIT_COSTS.SELECT_RESUME_ELEMENTS.
Amounts == {2, 5}

IdleTask == [pc |-> "idle", op |-> "none", amount |-> 0, current_credits |-> 0,
             status |-> 0]

InitCredits ==
    /\ elements = {}
    /\ custom_resumes = {}
    /\ cloud = {}
    /\ fs = {}
    /\ req = [r \in Reqs |-> IdleReq]
    /\ running = 0
    /\ meta_writer = [n \in 0 .. MaxRequests |-> 0]
    /\ final_writes = [n \in 0 .. MaxRequests |-> <<>>]
    /\ \E c \in 0 .. MaxCredits :
         call = [fn |-> "credits", credits |-> c, tasks |-> [t \in Tasks |-> IdleTask]]

CreditsUnchanged ==
    UNCHANGED <<elements, custom_resumes, cloud, fs, req, running,
                meta_writer, final_writes>>

\* deduct_credits is called: it awaits get_user_credits.
StartDeduct(t) ==
    /\ call.fn = "credits"
    /\ call.tasks[t].pc = "idle"
    /\ \E amount \in Amounts :
         call' = [call EXCEPT !.tasks[t] =
                     [IdleTask EXCEPT !.pc = "get_user_credits", !.op = "deduct",
                                      !.amount = amount]]
    /\ CreditsUnchanged

\* get_user_credits returns the balance; below the amount the call raises 400,
\* otherwise it issues the update.
GetUserCredits(t) ==
    /\ call.fn = "credits"
    /\ call.tasks[t].pc = "get_user_credits"
    /\ LET task == [call.tasks[t] EXCEPT !.current_credits = call.credits]
       IN  call' = [call EXCEPT !.tasks[t] =
                IF task.current_credits < task.amount
                THEN [task EXCEPT !.pc = "done", !.status = 400]
                ELSE [task EXCEPT !.pc = "update_one"]]
    /\ CreditsUnchanged

\* update_one {"$inc": {"credits": -amount}} on the user's document.
DeductUpdate(t) ==
    /\ call.fn = "credits"
    /\ call.tasks[t].pc = "update_one"
    /\ call' = [call EXCEPT !.credits = @ - call.tasks[t].amount,
                            !.tasks[t] = [@ EXCEPT !.pc = "done", !.status = 200]]
    /\ CreditsUnchanged

\* add_credits is called: it awaits its update.
StartAdd(t) ==
    /\ call.fn = "credits"
    /\ call.tasks[t].pc = "idle"
    /\ \E amount \in Amounts :
         /\ call.credits + amount <= MaxCredits
         /\ call' = [call EXCEPT !.tasks[t] =
                        [IdleTask EXCEPT !.pc = "add_update", !.op = "add",
                                         !.amount = amount]]
    /\ CreditsUnchanged

\* update_one {"$inc": {"credits": amount}} on the user's document.
AddUpdate(t) ==
    /\ call.fn = "credits"
    /\ call.tasks[t].pc = "add_update"
    /\ call' = [call EXCEPT !.credits = @ + call.tasks[t].amount,
                            !.tasks[t] = [@ EXCEPT !.pc = "done", !.status = 200]]
    /\ CreditsUnchanged

\* The call has returned or raised; the coroutine can take the next call.
TaskReturn(t) ==
    /\ call.fn = "credits"
    /\ call.tasks[t].pc = "done"
    /\ call' = [call EXCEPT !.tasks[t] = IdleTask]
    /\ CreditsUnchanged

NextCredits ==
    \E t \in Tasks :
        \/ StartDeduct(t)
        \/ GetUserCredits(t)
        \/ DeductUpdate(t)
        \/ StartAdd(t)
        \/ AddUpdate(t)
        \/ TaskReturn(t)

SpecCredits == InitCredits /\ [][NextCredits]_vars

\* C27: the user's credit balance is never negative, whatever deduct_credits
\* and add_credits calls have run, concurrent deductions included.
C27_BalanceNeverNegative ==
    call.fn = "credits" => call.credits >= 0

\* The part of C27 about a single call: a deduction that reads a balance below
\* its amount raises 400 and changes nothing; a deduction that goes through
\* takes exactly its amount off the balance.
C27_EachDeductionExact ==
    [][\A t \in Tasks :
          /\ (call.tasks[t].pc = "get_user_credits" /\ call'.tasks[t].pc = "done")
                => /\ call'.tasks[t].status = 400
                   /\ call.credits < call.tasks[t].amount
                   /\ call'.credits = call.credits
          /\ (call.tasks[t].pc = "update_one" /\ call'.tasks[t].pc = "done")
                => /\ call'.tasks[t].status = 200
                   /\ call'.credits = call.credits - call.tasks[t].amount]_vars

\* Two deductions of 5 have both gone through on a balance they both read as 5.
C27_Witness ==
    /\ call.fn = "credits"
    /\ \A t \in Tasks :
         /\ call.tasks[t].pc = "done"
         /\ call.tasks[t].op = "deduct"
         /\ call.tasks[t].amount = 5
         /\ call.tasks[t].current_credits = 5
         /\ call.tasks[t].status = 200
    /\ call.credits < 0

\* ----------------------------------------------------------- verify-payment
\* Calls of POST /verify-payment by one user for one (payment_id, order_id)
\* pair, each in its own coroutine.  call.credits is what the calls have added
\* to the user's balance, call.payments the documents of the payments
\* collection for the pair, in insertion order.
PAYMENT_PLANS == [STARTER |-> 70, POPULAR |-> 400]
PlanNames == {"STARTER", "POPULAR", "UNKNOWN"}

IdleVerify == [pc |-> "idle", plan_name |-> "", status |-> 0, existing |-> FALSE,
               record |-> 0]

InitPayment ==
    /\ elements = {}
    /\ custom_resumes = {}
    /\ cloud = {}
    /\ fs = {}
    /\ req = [r \in Reqs |-> IdleReq]
    /\ running = 0
    /\ meta_writer = [n \in 0 .. MaxRequests |-> 0]
    /\ final_writes = [n \in 0 .. MaxRequests |-> <<>>]
    /\ call = [fn |-> "verify_payment", credits |-> 0, payments |-> <<>>,
               tasks |-> [t \in Tasks |-> IdleVerify]]

\* The handler up to its first await: the plan name and the signature are
\* checked, then find_one on the payments collection is awaited.
VerifyPaymentStart(t) ==
    /\ call.fn = "verify_payment"
    /\ call.tasks[t].pc = "idle"
    /\ \E plan_name \in PlanNames, is_valid \in BOOLEAN :
         call' = [call EXCEPT !.tasks[t] =
            IF plan_name \notin DOMAIN PAYMENT_PLANS \/ ~is_valid
            THEN [IdleVerify EXCEPT !.pc = "done", !.plan_name = plan_name,
                                    !.status = 400]
            ELSE [IdleVerify EXCEPT !.pc = "find_existing", !.plan_name = plan_name]]
    /\ CreditsUnchanged

\* existing_payment = await find_one(...): an existing record is returned;
\* otherwise process_credit_purchase starts with add_credits.
FindExisting(t) ==
    /\ call.fn = "verify_payment"
    /\ call.tasks[t].pc = "find_existing"
    /\ call' = [call EXCEPT !.tasks[t] =
            IF call.payments # <<>>
            THEN [@ EXCEPT !.pc = "done", !.status = 200, !.existing = TRUE,
                           !.record = 1]
            ELSE [@ EXCEPT !.pc = "add_credits"]]
    /\ CreditsUnchanged

\* await add_credits(user_id, credits).
PurchaseAddCredits(t) ==
    /\ call.fn = "verify_payment"
    /\ call.tasks[t].pc = "add_credits"
    /\ call' = [call EXCEPT !.credits = @ + PAYMENT_PLANS[call.tasks[t].plan_name],
                            !.tasks[t] = [@ EXCEPT !.pc = "insert_one"]]
    /\ CreditsUnchanged

\* await payments_collection.insert_one(payment_doc).
PurchaseInsert(t) ==
    /\ call.fn = "verify_payment"
    /\ call.tasks[t].pc = "insert_one"
    /\ call' = [call EXCEPT
                  !.payments = Append(@, [plan_name |-> call.tasks[t].plan_name,
                                          credits_added |->
                                              PAYMENT_PLANS[call.tasks[t].plan_name],
                                          by |-> t]),
                  !.tasks[t] = [@ EXCEPT !.pc = "find_created"]]
    /\ CreditsUnchanged

\* payment_record = await find_one(...): the first document of the pair.
FindCreated(t) ==
    /\ call.fn = "verify_payment"
    /\ call.tasks[t].pc = "find_created"
    /\ call' = [call EXCEPT !.tasks[t] =
            IF call.payments = <<>>
            THEN [@ EXCEPT !.pc = "done", !.status = 500]
            ELSE [@ EXCEPT !.pc = "done", !.status = 200, !.record = 1]]
    /\ CreditsUnchanged

\* The response is sent; the client may call again.
VerifyReturn(t) ==
    /\ call.fn = "verify_payment"
    /\ call.tasks[t].pc = "done"
    /\ call' = [call EXCEPT !.tasks[t] = IdleVerify]
    /\ CreditsUnchanged

NextPayment ==
    \E t \in Tasks :
        \/ VerifyPaymentStart(t)
        \/ FindExisting(t)
        \/ PurchaseAddCredits(t)
        \/ PurchaseInsert(t)
        \/ FindCreated(t)
        \/ VerifyReturn(t)

SpecPayment == InitPayment /\ [][NextPayment]_vars

\* C28: for one (payment_id, order_id) pair at most one payment record is
\* stored and the balance has grown by the credits of at most one purchase;
\* once a record is stored the balance has grown by exactly its credits.
C28_CreditsAddedExactlyOnce ==
    call.fn = "verify_payment"
    => /\ Len(call.payments) <= 1
       /\ call.credits \in {0} \cup {PAYMENT_PLANS[p] : p \in DOMAIN PAYMENT_PLANS}
       /\ call.payments # <<>> => call.credits = call.payments[1].credits_added

\* The part of C28 about calls one after the other: a call that starts when a
\* record of the pair is stored returns that record and adds no credits.
C28_RepeatedCallReturnsExisting ==
    [][\A t \in Tasks :
          (call.tasks[t].pc = "find_existing" /\ call.payments # <<>>
             /\ call'.tasks[t] # call.tasks[t])
          => /\ call'.tasks[t].pc = "done"
             /\ call'.tasks[t].status = 200
             /\ call'.tasks[t].existing
             /\ call'.credits = call.credits
             /\ call'.payments = call.payments]_vars

\* Two calls for the STARTER plan have both answered 200 as new purchases: two
\* records are stored and the credits were added twice.
C28_Witness ==
    /\ call.fn = "verify_payment"
    /\ \A t \in Tasks :
         /\ call.tasks[t].pc = "done"
         /\ call.tasks[t].status = 200
         /\ ~call.tasks[t].existing
         /\ call.tasks[t].plan_name = "STARTER"
    /\ Len(call.payments) = 2
    /\ call.credits = 140

\* ----------------------------------------------- save_extracted_resume_data
\* One call of save_extracted_resume_data.  call.items is the extracted data
\* as the sequence of collections the call inserts into, in the order of its
\* eight blocks; call.store is the set of documents of this call that are in
\* the collections; any insert_one and any delete_one may raise.
MaxItems == 3

SaveOrder == <<"headings", "experiences", "projects", "educations", "skills",
               "certifications", "awards", "volunteer_experiences">>
BlockOf(name) == CHOOSE i \in DOMAIN SaveOrder : SaveOrder[i] = name

\* At most one heading, then the lists block by block.
ExtractedItems ==
    {items \in UNION {[1 .. n -> SeqToSet(SaveOrder)] : n \in 0 .. MaxItems} :
        /\ \A i \in DOMAIN items : \A j \in DOMAIN items :
               i < j => BlockOf(items[i]) <= BlockOf(items[j])
        /\ Cardinality({i \in DOMAIN items : items[i] = "headings"}) <= 1}

InitSave ==
    /\ elements = {}
    /\ custom_resumes = {}
    /\ cloud = {}
    /\ fs = {}
    /\ req = [r \in Reqs |-> IdleReq]
    /\ running = 0
    /\ meta_writer = [n \in 0 .. MaxRequests |-> 0]
    /\ final_writes = [n \in 0 .. MaxRequests |-> <<>>]
    /\ \E items \in ExtractedItems :
         call = [fn |-> "save_extracted_resume_data", items |-> items,
                 pc |-> "start", i |-> 1, inserted_records |-> <<>>,
                 result |-> <<>>, store |-> {}, deleted |-> <<>>, status |-> 0]

\* The call begins: with nothing extracted it returns the empty result.
SaveStart ==
    /\ call.fn = "save_extracted_resume_data"
    /\ call.pc = "start"
    /\ call' = IF call.items = <<>>
               THEN [call EXCEPT !.pc = "done", !.status = 201]
               ELSE [call EXCEPT !.pc = "insert_one"]
    /\ CreditsUnchanged

\* insert_one returns: the id is recorded; after the last item the result is
\* returned.
InsertReturns ==
    /\ call.fn = "save_extracted_resume_data"
    /\ call.pc = "insert_one"
    /\ LET doc_id == <<call.items[call.i], call.i>>
       IN  call' = [call EXCEPT
                      !.store = @ \cup {doc_id},
                      !.inserted_records = Append(@, doc_id),
                      !.result = Append(@, doc_id),
                      !.i = @ + 1,
                      !.pc = IF call.i = Len(call.items) THEN "done" ELSE "insert_one",
                      !.status = IF call.i = Len(call.items) THEN 201 ELSE 0]
    /\ CreditsUnchanged

\* insert_one raises: the outer handler starts _rollback_inserts.
InsertRaises ==
    /\ call.fn = "save_extracted_resume_data"
    /\ call.pc = "insert_one"
    /\ call' = IF call.inserted_records = <<>>
               THEN [call EXCEPT !.pc = "done", !.status = 500]
               ELSE [call EXCEPT !.pc = "delete_one", !.i = Len(call.inserted_records)]
    /\ CreditsUnchanged

\* The rollback goes on to the record before, or the error propagates.
AfterDelete(c) ==
    IF c.i = 1
    THEN [c EXCEPT !.pc = "done", !.status = 500, !.i = 0]
    ELSE [c EXCEPT !.i = @ - 1]

\* delete_one of the record reversed(inserted_records) has reached returns.
DeleteReturns ==
    /\ call.fn = "save_extracted_resume_data"
    /\ call.pc = "delete_one"
    /\ LET doc_id == call.inserted_records[call.i]
       IN  call' = AfterDelete([call EXCEPT !.store = @ \ {doc_id},
                                            !.deleted = Append(@, doc_id)])
    /\ CreditsUnchanged

\* delete_one raises: "except Exception: pass".
DeleteRaises ==
    /\ call.fn = "save_extracted_resume_data"
    /\ call.pc = "delete_one"
    /\ call' = AfterDelete(call)
    /\ CreditsUnchanged

NextSave ==
    \/ SaveStart
    \/ InsertReturns
    \/ InsertRaises
    \/ DeleteReturns
    \/ DeleteRaises

SpecSave == InitSave /\ [][NextSave]_vars

\* C29: after a failed call none of the records it inserted remains in the
\* collections; after a successful call every extracted element is stored and
\* its id is in the result.
C29_AllOrNothing ==
    (call.fn = "save_extracted_resume_data" /\ call.pc = "done")
    => /\ call.status = 500 => call.store = {}
       /\ call.status = 201
            => /\ call.store = {<<call.items[i], i>> : i \in DOMAIN call.items}
               /\ SeqToSet(call.result) = call.store

\* The part of C29 that holds: a failed call has tried to delete every record
\* it inserted, last one first, and the records left are those whose delete
\* raised; a successful call stored everything and returned every id.
C29_RollbackBestEffort ==
    (call.fn = "save_extracted_resume_data" /\ call.pc = "done")
    => /\ call.status = 500
            => /\ call.store = SeqToSet(call.inserted_records) \ SeqToSet(call.deleted)
               /\ \A a \in DOMAIN call.deleted : \A b \in DOMAIN call.deleted :
                      a < b => call.deleted[a][2] > call.deleted[b][2]
       /\ call.status = 201
            => /\ call.store = {<<call.items[i], i>> : i \in DOMAIN call.items}
               /\ SeqToSet(call.result) = call.store

\* A heading and an experience were inserted, the third insert raised, the
\* delete of the experience raised and the delete of the heading went through:
\* the call failed and the experience is still stored.
C29_Witness ==
    /\ call.fn = "save_extracted_resume_data"
    /\ call.pc = "done"
    /\ call.status = 500
    /\ call.items = <<"headings", "experiences", "projects">>
    /\ call.deleted = << <<"headings", 1>> >>
    /\ call.store = { <<"experiences", 2>> }

====
